---- MODULE Spec2Model ----
(***************************************************************************)
(* A model of the intel pipeline (srinivasgumdelli/moat): the run          *)
(* coordinator run_pipeline, the summarization orchestrator                *)
(* summarize_all_clusters, the LLM providers' cost tracking and the        *)
(* module-level cost tracker.                                              *)
(*                                                                         *)
(* Every coroutine step of the model is one block of Python code between   *)
(* two suspension points of the asyncio event loop; `holder` is the        *)
(* coroutine that currently runs without having suspended.                 *)
(***************************************************************************)
EXTENDS Integers, Sequences, FiniteSets, TLC

(***************************************************************************)
(* Bounds of the model.                                                    *)
(***************************************************************************)
\* provider.max_retries as configured in the model (llm/base.py default: 3)
MaxRetries == 1
\* pipeline.max_concurrent_summaries as configured in the model (default 10)
MaxConcurrent == 2
\* records one source.fetch(topic) call returns at most
MaxBatch == 1
\* integer cluster labels fcluster hands out: 1..MaxLabel
MaxLabel == 2
\* clusters handed to summarize_all_clusters in SpecSumm
MaxClusters == 4
\* records handed to DedupProcessor.process in SpecDedup
MaxDedup == 3
\* tokens of a response text in SpecSummarize
MaxText == 3
\* largest max_retries handed to retry_async in SpecRetry
MaxRetriesArg == 2
\* current clusters handed to TrendsAnalyzer.analyze in SpecTrends
MaxTrendClusters == 2
\* (Cluster, Summary) pairs stored for the previous run in SpecTrends
MaxPrevPairs == 2
\* calls of insert_article in SpecInsert
MaxInserts == 3
\* clusters of the run whose concurrent units SpecUnits follows
MaxUnitClusters == 2
\* records that survive dedup in SpecCluster
MaxClusterArts == 3

(***************************************************************************)
(* Configuration and registries.                                           *)
(***************************************************************************)
None == "None"

Runs == {"r1", "r2"}

\* ingest.SOURCES: the registered source names
SOURCES == {"rss", "hackernews"}

\* get_active_sources(config): one enabled source is not registered
active_sources == <<"rss", "ghost", "hackernews">>

\* get_active_topics(config)
topics == <<"tech", "finance">>

\* analyze.ANALYZERS, in registration order
ANALYZERS == <<"crossref", "projections", "trends">>

\* deliver.CHANNELS, all enabled
CHANNELS == <<"telegram">>

\* The configuration the runs are given (config.yaml); the keys the model
\* reads, with the values the model runs under.
config ==
    [pipeline |-> [max_articles_per_topic |-> 1],
     process |-> [dedup |-> [cosine_threshold |-> 85]]]

\* pipeline_cfg.get("max_articles_per_topic", 30)
max_per_topic == config.pipeline.max_articles_per_topic

(***************************************************************************)
(* Sequence helpers.                                                       *)
(***************************************************************************)
RECURSIVE SelectSeqIdx(_, _, _)
\* [s[i] for i in 1..Len(s) if i \in keep], order preserved
SelectSeqIdx(s, keep, i) ==
    IF i > Len(s) THEN <<>>
    ELSE (IF i \in keep THEN <<s[i]>> ELSE <<>>) \o SelectSeqIdx(s, keep, i + 1)

RECURSIVE Flatten(_)
\* [a for batch in batches for a in batch]
Flatten(batches) ==
    IF batches = <<>> THEN <<>>
    ELSE Head(batches) \o Flatten(Tail(batches))

RECURSIVE SumSeq(_)
SumSeq(s) == IF s = <<>> THEN 0 ELSE Head(s) + SumSeq(Tail(s))

Range(s) == {s[i] : i \in 1..Len(s)}

(***************************************************************************)
(* run_pipeline, lines 86-95: the fetch units, sources outer, topics inner *)
(***************************************************************************)
valid_sources == SelectSeq(active_sources, LAMBDA s : s \in SOURCES)

FetchUnits ==
    Flatten([i \in 1..Len(valid_sources) |->
                [j \in 1..Len(topics) |->
                    [source |-> valid_sources[i], topic |-> topics[j]]]])

Units == 1..Len(FetchUnits)

\* A record as a source returns it: no row id, no cluster label yet.
Article(u, n) ==
    [source |-> FetchUnits[u].source, topic |-> FetchUnits[u].topic, n |-> n,
     id |-> 0, cluster_id |-> 0]

\* What source.fetch(topic) of unit u may return.
Batches(u) == {[n \in 1..k |-> Article(u, n)] : k \in 0..MaxBatch}

(***************************************************************************)
(* pipeline._filter_articles.  `old` is the set of positions whose         *)
(* published_at lies more than max_article_age_hours before utcnow().      *)
(***************************************************************************)
RECURSIVE CapPerTopic(_, _, _)
CapPerTopic(filtered, i, topic_counts) ==
    IF i > Len(filtered) THEN <<>>
    ELSE LET t == filtered[i].topic
             count == topic_counts[t]
         IN  IF count < max_per_topic
             THEN <<filtered[i]>> \o
                  CapPerTopic(filtered, i + 1, [topic_counts EXCEPT ![t] = count + 1])
             ELSE CapPerTopic(filtered, i + 1, topic_counts)

filter_articles(arts, old) ==
    LET filtered == SelectSeqIdx(arts, (1..Len(arts)) \ old, 1)
    IN  CapPerTopic(filtered, 1, [t \in Range(topics) |-> 0])

(***************************************************************************)
(* process/embeddings.cosine_similarity and DedupProcessor.process.        *)
(* Embeddings are small integer vectors; sim >= threshold is decided       *)
(* exactly, on squares: dot >= 0 and dot^2 * 100^2 >= thr^2 * |a|^2 |b|^2. *)
(***************************************************************************)
\* cfg.get("cosine_threshold", 0.85), in hundredths
cosine_threshold == config.process.dedup.cosine_threshold

Dot(a, b) == a[1] * b[1] + a[2] * b[2]

\* cosine_similarity(a, b) >= thr / 100; a zero vector has similarity 0.0
CosineAtLeast(a, b, thr) ==
    IF Dot(a, a) = 0 \/ Dot(b, b) = 0
    THEN 0 >= thr
    ELSE /\ Dot(a, b) >= 0
         /\ Dot(a, b) * Dot(a, b) * 10000 >= thr * thr * Dot(a, a) * Dot(b, b)

\* A faulty variant of phase 1 that never consults seen_hashes.
HashDedup_Unseen(hash, n, i, seen_hashes) == i..n

RECURSIVE HashDedup(_, _, _, _)
\* phase 1: positions kept by the seen_hashes loop
HashDedup(hash, n, i, seen_hashes) ==
    IF i > n THEN {}
    ELSE IF hash[i] \in seen_hashes
         THEN HashDedup(hash, n, i + 1, seen_hashes)
         ELSE {i} \cup HashDedup(hash, n, i + 1, seen_hashes \cup {hash[i]})

RECURSIVE SimInner(_, _, _, _, _)
\* the inner loop over j of phase 2, for one i that is still kept
SimInner(emb, n, i, j, keep) ==
    IF j > n THEN keep
    ELSE IF j \notin keep
         THEN SimInner(emb, n, i, j + 1, keep)
         ELSE SimInner(emb, n, i, j + 1,
                       IF CosineAtLeast(emb[i], emb[j], cosine_threshold)
                       THEN keep \ {j} ELSE keep)

RECURSIVE SimOuter(_, _, _, _)
\* phase 2: the outer loop over i
SimOuter(emb, n, i, keep) ==
    IF i > n THEN keep
    ELSE IF i \notin keep
         THEN SimOuter(emb, n, i + 1, keep)
         ELSE SimOuter(emb, n, i + 1, SimInner(emb, n, i, i + 1, keep))

\* DedupProcessor.process: hash[i] is arts[i].content_hash, emb[i] the
\* embedding embed_texts returns for arts[i]
DedupProcess(arts, enabled, hash, emb) ==
    IF ~enabled THEN arts
    ELSE LET kept1 == HashDedup(hash, Len(arts), 1, {})
             hash_deduped == SelectSeqIdx(arts, kept1, 1)
             emb1 == SelectSeqIdx(emb, kept1, 1)
             m == Len(hash_deduped)
         IN  IF m < 2 THEN hash_deduped
             ELSE SelectSeqIdx(hash_deduped, SimOuter(emb1, m, 1, 1..m), 1)

(***************************************************************************)
(* ClusterProcessor.process and build_clusters.  labels[i] is the integer  *)
(* label fcluster assigns to arts[i].                                      *)
(***************************************************************************)
\* A faulty process that labels the records whatever the configuration and
\* their number.
ClusterProcess_Always(arts, enabled, labels) ==
    [i \in 1..Len(arts) |-> [arts[i] EXCEPT !.cluster_id = labels[i]]]

ClusterProcess(arts, enabled, labels) ==
    IF ~enabled \/ Len(arts) < 2 THEN arts
    ELSE [i \in 1..Len(arts) |-> [arts[i] EXCEPT !.cluster_id = labels[i]]]

RECURSIVE ClusterKeys(_, _, _)
\* the keys of cluster_map in insertion order
ClusterKeys(arts, i, seen) ==
    IF i > Len(arts) THEN <<>>
    ELSE LET c == arts[i].cluster_id
         IN  IF c # 0 /\ c \notin seen
             THEN <<c>> \o ClusterKeys(arts, i + 1, seen \cup {c})
             ELSE ClusterKeys(arts, i + 1, seen)

build_clusters(arts, topic) ==
    LET keys == ClusterKeys(arts, 1, {})
    IN  [k \in 1..Len(keys) |->
            LET cluster_articles == SelectSeq(arts, LAMBDA a : a.cluster_id = keys[k])
            IN  [topic |-> topic, label |-> "Cluster", cluster_label |-> keys[k],
                 article_count |-> Len(cluster_articles),
                 articles |-> cluster_articles, id |-> 0]]

\* A faulty variant of the coordinator's loop that hands every deduplicated
\* record to build_clusters, whatever its topic.
BuildAllClusters_Unscoped(arts) ==
    Flatten([t \in 1..Len(topics) |-> build_clusters(arts, topics[t])])

\* run_pipeline, lines 128-137: clusters of every topic, in topic order
BuildAllClusters(arts) ==
    Flatten([t \in 1..Len(topics) |->
        LET topic_articles == SelectSeq(arts, LAMBDA a : a.topic = topics[t])
        IN  IF topic_articles = <<>> THEN <<>>
            ELSE build_clusters(topic_articles, topics[t])])

(***************************************************************************)
(* llm/batch.estimate_cost and pipeline.CostTracker.  Rates are the        *)
(* per-million-token prices times 100, so a cost is an integer number of   *)
(* 10^-8 USD and the sums are exact.                                       *)
(***************************************************************************)
Models == {"deepseek-chat", "claude-sonnet-4-5-20250514", "claude-opus-4-6",
           "claude-haiku-4-5-20251001", "other"}

pricing(model) ==
    CASE model = "deepseek-chat" -> <<14, 28>>
      [] model = "claude-sonnet-4-5-20250514" -> <<300, 1500>>
      [] model = "claude-opus-4-6" -> <<1500, 7500>>
      [] model = "claude-haiku-4-5-20251001" -> <<80, 400>>
      [] OTHER -> <<100, 200>>

estimate_cost(input_tokens, output_tokens, model) ==
    input_tokens * pricing(model)[1] + output_tokens * pricing(model)[2]

\* CostTracker.__init__
NewCostTracker ==
    [total_input_tokens |-> 0, total_output_tokens |-> 0, total_cost_usd |-> 0]

\* A faulty variant of CostTracker.track that overwrites the totals instead
\* of adding to them.
track_Overwriting(t, input_tokens, output_tokens, model) ==
    [total_input_tokens |-> input_tokens,
     total_output_tokens |-> output_tokens,
     total_cost_usd |-> estimate_cost(input_tokens, output_tokens, model)]

\* CostTracker.track
track(t, input_tokens, output_tokens, model) ==
    [total_input_tokens |-> t.total_input_tokens + input_tokens,
     total_output_tokens |-> t.total_output_tokens + output_tokens,
     total_cost_usd |-> t.total_cost_usd
                          + estimate_cost(input_tokens, output_tokens, model)]

\* BaseLLMProvider._track_cost: `current` is what get_cost_tracker() returns
\* (None or the run whose tracker the module global holds), `trackers` the
\* CostTracker objects by the run that created them
track_cost(trackers, current, response) ==
    IF current # None /\ (response.input_tokens # 0 \/ response.output_tokens # 0)
    THEN [trackers EXCEPT ![current] =
             track(@, response.input_tokens, response.output_tokens, response.model)]
    ELSE trackers

(***************************************************************************)
(* synthesize/summarizer: _normalize_quotes, _try_parse, _extract_json.    *)
(* A response text is a sequence of tokens:                                *)
(*   "{" "}"     braces            "fence"  a markdown fence               *)
(*   "x"         a word of prose   "7"   a JSON scalar    "null"           *)
(*   "what" "label" "conf_likely" "conf_bogus"                             *)
(*               one "key": value member written with straight quotes      *)
(*   "q_what" "q_label"                                                    *)
(*               the same member written with typographic quotes           *)
(* json.loads accepts a scalar, null, and an object of straight-quoted     *)
(* members.                                                                *)
(***************************************************************************)
Members == {"what", "label", "conf_likely", "conf_bogus"}

NoneVal == [kind |-> "None"]

normalize_quotes(text) ==
    [i \in 1..Len(text) |->
        CASE text[i] = "q_what" -> "what"
          [] text[i] = "q_label" -> "label"
          [] OTHER -> text[i]]

\* json.loads: [kind |-> "error"] stands for JSONDecodeError
json_loads(text) ==
    IF text = <<"7">> THEN [kind |-> "scalar"]
    ELSE IF text = <<"null">> THEN NoneVal
    ELSE IF /\ Len(text) >= 2
            /\ text[1] = "{"
            /\ text[Len(text)] = "}"
            /\ \A i \in 2..(Len(text) - 1) : text[i] \in Members
         THEN [kind |-> "dict", keys |-> {text[i] : i \in 2..(Len(text) - 1)}]
         ELSE [kind |-> "error"]

try_parse(text) ==
    IF json_loads(text).kind # "error" THEN json_loads(text)
    ELSE IF json_loads(normalize_quotes(text)).kind # "error"
         THEN json_loads(normalize_quotes(text))
         ELSE NoneVal

Positions(text, tok) == {i \in 1..Len(text) : text[i] = tok}

Min(S) == CHOOSE x \in S : \A y \in S : x <= y

Max(S) == CHOOSE x \in S : \A y \in S : x >= y

\* the fenced-block regular expression (lazy): the span between the first
\* fence and the next one, or None
Fenced(text) ==
    LET f == Positions(text, "fence")
    IN  IF Cardinality(f) < 2 THEN None
        ELSE SubSeq(text, Min(f) + 1, Min(f \ {Min(f)}) - 1)

\* the brace regular expression (greedy): from the first opening brace to
\* the last closing brace after it, or None
Braced(text) ==
    LET o == Positions(text, "{")
        c == Positions(text, "}")
    IN  IF o = {} \/ {j \in c : j > Min(o)} = {} THEN None
        ELSE SubSeq(text, Min(o), Max(c))

extract_json(text) ==
    IF try_parse(text) # NoneVal THEN try_parse(text)
    ELSE IF Fenced(text) # None /\ try_parse(Fenced(text)) # NoneVal
         THEN try_parse(Fenced(text))
         ELSE IF Braced(text) # None /\ try_parse(Braced(text)) # NoneVal
              THEN try_parse(Braced(text))
              ELSE NoneVal

(***************************************************************************)
(* synthesize/summarizer: summarize_cluster and _summarize_single.         *)
(***************************************************************************)
\* response.text[:500] in the model's token count
WhatCap == 2

ConfidenceLevels == {"speculative", "developing", "likely", "confirmed"}

Prefix(text, n) == SubSeq(text, 1, IF Len(text) < n THEN Len(text) ELSE n)

\* data.get("confidence", "developing")
GetConfidence(keys) ==
    IF "conf_likely" \in keys THEN "likely"
    ELSE IF "conf_bogus" \in keys THEN "bogus"
    ELSE "developing"

\* Summary(...) built from the parsed dict
ParsedSummary(cluster, keys) ==
    [kind |-> "Summary", cluster_id |-> cluster.id,
     what_happened |-> IF "what" \in keys THEN <<"what">> ELSE <<>>,
     why_it_matters |-> "",
     confidence |-> GetConfidence(keys)]

\* A faulty variant of the degraded Summary that carries the whole response.
DegradedSummary_Whole(cluster, text) ==
    [kind |-> "Summary", cluster_id |-> cluster.id,
     what_happened |-> text,
     why_it_matters |-> "Parse error.",
     confidence |-> "developing"]

\* Summary(...) built from the raw text after every extraction failed: lines
\* 95-103 for a cluster of several records, lines 136-141 and 149-157 for a
\* cluster of one
DegradedSummary(cluster, text) ==
    [kind |-> "Summary", cluster_id |-> cluster.id,
     what_happened |-> Prefix(text, WhatCap),
     why_it_matters |-> IF Len(cluster.articles) = 1 THEN "Parse error."
                        ELSE "Parse error - raw LLM output used.",
     confidence |-> "developing"]

\* The outcome of summarize_cluster once provider.complete has returned
\* `response`: the Summary it returns and the cluster's label afterwards, or
\* raised = TRUE when it raises (data.get on a value that is no dict)
summarize_cluster(cluster, response) ==
    LET data == extract_json(response.text)
        single == Len(cluster.articles) = 1
    IN  IF data = NoneVal
        THEN [raised |-> FALSE,
              summary |-> DegradedSummary(cluster, response.text),
              label |-> IF cluster.label = "Cluster" /\ cluster.articles # <<>>
                        THEN "title" ELSE cluster.label]
        ELSE IF data.kind # "dict"
             THEN [raised |-> TRUE, summary |-> NoneVal, label |-> cluster.label]
             ELSE [raised |-> FALSE,
                   summary |-> ParsedSummary(cluster, data.keys),
                   label |-> IF "label" \in data.keys THEN "llm"
                             ELSE IF single /\ cluster.label = "Cluster"
                                  THEN "title" ELSE cluster.label]

\* summarize_all_clusters, line 176: [s for s in results if s is not None]
NotNone(results) == SelectSeq(results, LAMBDA s : s # NoneVal)

(***************************************************************************)
(* The state.                                                              *)
(***************************************************************************)
VARIABLES
    holder,        \* the run whose coroutine is running between two awaits
    cost_tracker,  \* pipeline._cost_tracker: None, or the run that created it
    trackers,      \* the CostTracker objects, by the run that created them
    db,            \* the store: pipeline_runs, articles, clusters, summaries
    pc,            \* where each run_pipeline invocation stands
    run,           \* run_pipeline's PipelineRun object, per invocation
    frame,         \* run_pipeline's other locals, per invocation
    fetch,         \* the _fetch units of the ingestion gather
    summ,          \* summarize_all_clusters: semaphore, units, results
    ana,           \* the _run_analyzer units of the analysis gather
    deliv,         \* the delivery loop: the channel being served
    hist,          \* history of each invocation, for stating the properties
    call           \* a function evaluated on its own: arguments, stage, result

vars == <<holder, cost_tracker, trackers, db, pc, run, frame, fetch, summ, ana,
          deliv, hist, call>>

\* the variables of the runs
runvars == <<holder, cost_tracker, trackers, db, pc, run, frame, fetch, summ, ana,
             deliv, hist>>

\* models.PipelineRun()
NewPipelineRun ==
    [status |-> "running", finished_at |-> None, articles_fetched |-> 0,
     articles_after_dedup |-> 0, clusters_formed |-> 0, llm_tokens_used |-> 0,
     llm_cost_usd |-> 0]

NoRow == [status |-> "absent"]

NewFrame ==
    [all_articles |-> <<>>, articles |-> <<>>, all_clusters |-> <<>>,
     summaries |-> <<>>, cross_refs |-> 0, projections |-> 0, trends |-> 0,
     digest |-> None, exc |-> None]

NewSumm == [sem |-> 0, units |-> <<>>, results |-> <<>>]

NewAna == [a \in Range(ANALYZERS) |-> [st |-> "idle", attempt |-> 0, result |-> 0]]

NewHist ==
    [finish_calls |-> 0, finished_at_sets |-> 0, executed |-> {},
     raised |-> None, summary_inserts |-> 0, fetched |-> 0, retried_ok |-> FALSE,
     returned_input |-> 0, returned_output |-> 0, returned_cost |-> 0,
     sent |-> <<>>]

\* no function is being evaluated on its own
NoCall == [fn |-> None]

\* no run_pipeline invocation has started
NoRun ==
    /\ holder = None
    /\ cost_tracker = None
    /\ trackers = [r \in Runs |-> NewCostTracker]
    /\ db = [pipeline_runs |-> [r \in Runs |-> NoRow], articles |-> <<>>,
             n_clusters |-> 0, summaries |-> <<>>]
    /\ pc = [r \in Runs |-> "idle"]
    /\ run = [r \in Runs |-> NewPipelineRun]
    /\ frame = [r \in Runs |-> NewFrame]
    /\ fetch = [r \in Runs |-> [u \in Units |-> [st |-> "idle", batch |-> <<>>]]]
    /\ summ = [r \in Runs |-> NewSumm]
    /\ ana = [r \in Runs |-> NewAna]
    /\ deliv = [r \in Runs |-> 0]
    /\ hist = [r \in Runs |-> NewHist]

Init ==
    /\ call = NoCall
    /\ NoRun

(***************************************************************************)
(* Helpers of the actions.                                                 *)
(***************************************************************************)
\* db.finish_run: the UPDATE of the run's row; ok = FALSE when the store
\* raises instead (sqlite3.Error) and nothing is written
finish_run(d, r, runrec, ok) ==
    IF ok THEN [d EXCEPT !.pipeline_runs[r] = runrec] ELSE d

\* A faulty variant of the finalizing assignments that forgets the timestamp.
SetFinished_StatusOnly(runrec, status) == [runrec EXCEPT !.status = status]

\* run.status = status; run.finished_at = datetime.utcnow()
SetFinished(runrec, status) ==
    [runrec EXCEPT !.status = status, !.finished_at = "utcnow"]

\* run_pipeline, lines 245-249 and 265-269: copy the ledger into the run
CopyLedger(runrec, t) ==
    [runrec EXCEPT !.llm_tokens_used = t.total_input_tokens + t.total_output_tokens,
                   !.llm_cost_usd = t.total_cost_usd]

\* A faulty variant of line 96 that takes the units in reverse order.
GatherArticles_Reversed(f) ==
    Flatten([u \in Units |-> f[Len(FetchUnits) + 1 - u].batch])

\* run_pipeline, line 96
GatherArticles(f) == Flatten([u \in Units |-> f[u].batch])

\* db.insert_article for every record of arts, in order: <<table, arts with ids>>
RECURSIVE InsertArticles(_, _, _)
InsertArticles(table, arts, i) ==
    IF i > Len(arts) THEN <<table, arts>>
    ELSE LET url == <<arts[i].source, arts[i].topic, arts[i].n>>
             at == {k \in 1..Len(table) : table[k] = url}
         IN  IF at # {}
             THEN InsertArticles(table, [arts EXCEPT ![i].id = Min(at)], i + 1)
             ELSE InsertArticles(Append(table, url),
                                 [arts EXCEPT ![i].id = Len(table) + 1], i + 1)

\* run_pipeline, lines 140-144: cluster.id = insert_cluster(conn, cluster)
StoreClusters(clusters, n) ==
    [k \in 1..Len(clusters) |-> [clusters[k] EXCEPT !.id = n + k]]

\* A faulty semaphore that admits every caller.
SemFree_Always(s) == TRUE

\* A faulty semaphore that admits no caller.
SemFree_Never(s) == FALSE

\* asyncio.Semaphore: acquire() returns at once iff the value is positive
SemFree(s) == s.sem > 0

\* the first cluster still waiting for the semaphore (waiters are FIFO)
FirstQueued(s) == Min({c \in 1..Len(s.units) : s.units[c].st = "queued"})

AllDone(units) == \A c \in 1..Len(units) : units[c].st \in {"returned", "raised"}

\* A faulty backfill that hands every Summary to the first cluster that
\* has members.
Backfill_First(summary, clusters) ==
    LET hit == {k \in 1..Len(clusters) : clusters[k].articles # <<>>}
    IN  IF hit = {} THEN summary
        ELSE [summary EXCEPT !.cluster_id = clusters[Min(hit)].id]

\* run_pipeline, lines 153-158: the backfill of summary.cluster_id
Backfill(summary, clusters) ==
    LET hit == {k \in 1..Len(clusters) :
                    summary.cluster_id = 0 /\ clusters[k].articles # <<>>}
    IN  IF hit = {} THEN summary
        ELSE [summary EXCEPT !.cluster_id = clusters[Min(hit)].id]

\* A faulty variant of lines 196-202 that always renders the narrative digest.
Digest_Narrative(summaries) == "narrative"

\* run_pipeline, lines 196-202
Digest(summaries) == IF summaries # <<>> THEN "narrative" ELSE "fallback"

(***************************************************************************)
(* run_pipeline, lines 61-95: the tracker, the run row, the fetch gather.  *)
(***************************************************************************)
Start(r) ==
    /\ pc[r] = "idle"
    /\ UNCHANGED call
    /\ holder = None
    /\ cost_tracker' = r
    /\ trackers' = [trackers EXCEPT ![r] = NewCostTracker]
    /\ db' = [db EXCEPT !.pipeline_runs[r] = NewPipelineRun]
    /\ fetch' = [fetch EXCEPT ![r] = [u \in Units |-> [st |-> "pending", batch |-> <<>>]]]
    /\ pc' = [pc EXCEPT ![r] = "ingest"]
    /\ holder' = None
    /\ UNCHANGED <<run, frame, summ, ana, deliv, hist>>

\* _fetch, lines 77-78: the unit returns a batch
FetchReturns(r, u, batch) ==
    /\ pc[r] = "ingest"
    /\ UNCHANGED call
    /\ holder = None
    /\ fetch[r][u].st = "pending"
    /\ fetch' = [fetch EXCEPT ![r][u] = [st |-> "returned", batch |-> batch]]
    /\ UNCHANGED <<holder, cost_tracker, trackers, db, pc, run, frame, summ, ana,
                   deliv, hist>>

\* _fetch, lines 79-84: the constructor or fetch raised; the unit returns []
FetchRaises(r, u) ==
    /\ pc[r] = "ingest"
    /\ UNCHANGED call
    /\ holder = None
    /\ fetch[r][u].st = "pending"
    /\ fetch' = [fetch EXCEPT ![r][u] = [st |-> "raised", batch |-> <<>>]]
    /\ UNCHANGED <<holder, cost_tracker, trackers, db, pc, run, frame, summ, ana,
                   deliv, hist>>

\* A faulty gather that returns as soon as one unit is over.
AllFetched_First(units) == \E u \in Units : units[u].st \in {"returned", "raised"}

\* asyncio.gather(*tasks), line 91: over once every unit is over
AllFetched(units) == \A u \in Units : units[u].st \in {"returned", "raised"}

\* run_pipeline, lines 91-109: the gather returns; the early return
IngestJoin(r, ok) ==
    /\ pc[r] = "ingest"
    /\ UNCHANGED call
    /\ holder = None
    /\ AllFetched(fetch[r])
    /\ LET all == GatherArticles(fetch[r])
           fetched == [run[r] EXCEPT !.articles_fetched = Len(all)]
       IN  IF all = <<>>
           THEN /\ run' = [run EXCEPT ![r] = SetFinished(fetched, "completed")]
                /\ db' = finish_run(db, r, run'[r], ok)
                /\ hist' = [hist EXCEPT ![r].finish_calls = @ + 1,
                                        ![r].finished_at_sets = @ + 1]
                /\ pc' = [pc EXCEPT ![r] = IF ok THEN "finally" ELSE "except"]
                /\ frame' = [frame EXCEPT ![r].exc = IF ok THEN None ELSE "finish_run"]
           ELSE /\ run' = [run EXCEPT ![r] = fetched]
                /\ frame' = [frame EXCEPT ![r].all_articles = all]
                /\ hist' = [hist EXCEPT ![r].fetched =
                       SumSeq([u \in Units |-> Len(fetch[r][u].batch)])]
                /\ pc' = [pc EXCEPT ![r] = "filter"]
                /\ UNCHANGED db
    /\ holder' = r
    /\ UNCHANGED <<cost_tracker, trackers, fetch, summ, ana, deliv>>

\* run_pipeline, line 112; fetch_results is not read after line 96 and is
\* dropped here
Filter(r, old) ==
    /\ pc[r] = "filter"
    /\ UNCHANGED call
    /\ holder = r
    /\ old \subseteq 1..Len(frame[r].all_articles)
    /\ frame' = [frame EXCEPT ![r].all_articles = filter_articles(@, old)]
    /\ fetch' = [fetch EXCEPT ![r] = [u \in Units |-> [st |-> "idle", batch |-> <<>>]]]
    /\ hist' = [hist EXCEPT ![r].executed = @ \cup {"filter"}]
    /\ pc' = [pc EXCEPT ![r] = "store"]
    /\ UNCHANGED <<holder, cost_tracker, trackers, db, run, summ, ana, deliv>>

\* run_pipeline, lines 115-116; ok = FALSE when insert_article raises
Store(r, ok) ==
    /\ pc[r] = "store"
    /\ UNCHANGED call
    /\ holder = r
    /\ hist' = [hist EXCEPT ![r].executed = @ \cup {"store"}]
    /\ IF ok
       THEN LET ins == InsertArticles(db.articles, frame[r].all_articles, 1)
            IN  /\ db' = [db EXCEPT !.articles = ins[1]]
                /\ frame' = [frame EXCEPT ![r].all_articles = ins[2]]
                /\ pc' = [pc EXCEPT ![r] = "dedup"]
       ELSE /\ frame' = [frame EXCEPT ![r].exc = "insert_article"]
            /\ pc' = [pc EXCEPT ![r] = "except"]
            /\ UNCHANGED db
    /\ UNCHANGED <<holder, cost_tracker, trackers, run, fetch, summ, ana, deliv>>

\* run_pipeline, lines 119-122; ok = FALSE when dedup.process raises
Dedup(r, ok, enabled, hash, emb) ==
    /\ pc[r] = "dedup"
    /\ UNCHANGED call
    /\ holder = r
    /\ hist' = [hist EXCEPT ![r].executed = @ \cup {"dedup"}]
    /\ IF ok
       THEN LET out == DedupProcess(frame[r].all_articles, enabled, hash, emb)
            IN  /\ frame' = [frame EXCEPT ![r].articles = out]
                /\ run' = [run EXCEPT ![r].articles_after_dedup = Len(out)]
                /\ pc' = [pc EXCEPT ![r] = "cluster"]
       ELSE /\ frame' = [frame EXCEPT ![r].exc = "dedup"]
            /\ pc' = [pc EXCEPT ![r] = "except"]
            /\ UNCHANGED run
    /\ UNCHANGED <<holder, cost_tracker, trackers, db, fetch, summ, ana, deliv>>

\* run_pipeline, lines 125-150 and summarize_all_clusters, lines 164-175:
\* labels, Cluster objects, their rows, and the summarization gather.
\* ok = "cluster" when cluster_proc.process raises, "insert_cluster" when the
\* store does
Cluster(r, ok, enabled, labels) ==
    /\ pc[r] = "cluster"
    /\ UNCHANGED call
    /\ holder = r
    /\ hist' = [hist EXCEPT ![r].executed =
                    @ \cup (IF ok = "ok" THEN {"cluster", "summarize"} ELSE {"cluster"})]
    /\ LET labelled == ClusterProcess(frame[r].articles, enabled, labels)
           clusters == StoreClusters(BuildAllClusters(labelled), db.n_clusters)
       IN  IF ok = "ok"
           THEN /\ frame' = [frame EXCEPT ![r].articles = labelled,
                                          ![r].all_clusters = clusters]
                /\ db' = [db EXCEPT !.n_clusters = @ + Len(clusters)]
                /\ run' = [run EXCEPT ![r].clusters_formed = Len(clusters)]
                /\ summ' = [summ EXCEPT ![r] =
                       [sem |-> MaxConcurrent,
                        units |-> [c \in 1..Len(clusters) |->
                                      [st |-> "queued", attempt |-> 0]],
                        results |-> [c \in 1..Len(clusters) |-> NoneVal]]]
                /\ pc' = [pc EXCEPT ![r] = "summarize"]
                /\ holder' = IF clusters = <<>> THEN r ELSE None
           ELSE /\ frame' = [frame EXCEPT ![r].exc = ok]
                /\ pc' = [pc EXCEPT ![r] = "except"]
                /\ UNCHANGED <<db, run, summ, holder>>
    /\ UNCHANGED <<cost_tracker, trackers, fetch, ana, deliv>>

(***************************************************************************)
(* summarize_all_clusters._safe_summarize, one unit per cluster.           *)
(***************************************************************************)
\* `async with sem`: the first waiting unit enters and calls the provider
Admit(r) ==
    /\ pc[r] = "summarize"
    /\ UNCHANGED call
    /\ holder = None
    /\ \E c \in 1..Len(summ[r].units) : summ[r].units[c].st = "queued"
    /\ SemFree(summ[r])
    /\ summ' = [summ EXCEPT ![r].sem = @ - 1,
                            ![r].units[FirstQueued(summ[r])].st = "inflight"]
    /\ UNCHANGED <<holder, cost_tracker, trackers, db, pc, run, frame, fetch, ana,
                   deliv, hist>>

\* retry_async inside provider.complete: a transient failure, retries left
CallRetries(r, c) ==
    /\ pc[r] = "summarize"
    /\ UNCHANGED call
    /\ holder = None
    /\ c \in 1..Len(summ[r].units)
    /\ summ[r].units[c].st = "inflight"
    /\ summ[r].units[c].attempt < MaxRetries
    /\ summ' = [summ EXCEPT ![r].units[c].attempt = @ + 1]
    /\ UNCHANGED <<holder, cost_tracker, trackers, db, pc, run, frame, fetch, ana,
                   deliv, hist>>

\* provider.complete raises (retries exhausted, or a failure that is not
\* transient); _safe_summarize logs it and returns None
CallRaises(r, c) ==
    /\ pc[r] = "summarize"
    /\ UNCHANGED call
    /\ holder = None
    /\ c \in 1..Len(summ[r].units)
    /\ summ[r].units[c].st = "inflight"
    /\ summ' = [summ EXCEPT ![r].units[c] = [st |-> "raised", attempt |-> 0],
                            ![r].results[c] = NoneVal,
                            ![r].sem = @ + 1]
    /\ UNCHANGED <<holder, cost_tracker, trackers, db, pc, run, frame, fetch, ana,
                   deliv, hist>>

\* provider.complete returns `response`: _track_cost, then the rest of
\* summarize_cluster, then the semaphore is released
CallReturns(r, c, response) ==
    /\ pc[r] = "summarize"
    /\ UNCHANGED call
    /\ holder = None
    /\ c \in 1..Len(summ[r].units)
    /\ summ[r].units[c].st = "inflight"
    /\ trackers' = track_cost(trackers, cost_tracker, response)
    /\ LET out == summarize_cluster(frame[r].all_clusters[c], response)
       IN  /\ summ' = [summ EXCEPT ![r].units[c] = [st |-> "returned", attempt |-> 0],
                                   ![r].results[c] = out.summary,
                                   ![r].sem = @ + 1]
           /\ frame' = [frame EXCEPT ![r].all_clusters[c].label = out.label]
    /\ hist' = [hist EXCEPT
           ![r].returned_input = @ + response.input_tokens,
           ![r].returned_output = @ + response.output_tokens,
           ![r].returned_cost = @ + estimate_cost(response.input_tokens,
                                    response.output_tokens, response.model),
           ![r].retried_ok = @ \/ summ[r].units[c].attempt > 0]
    /\ UNCHANGED <<holder, cost_tracker, db, pc, run, fetch, ana, deliv>>

\* run_pipeline, lines 150-181: the summaries come back, are stored, and the
\* analyzers are gathered; ok = FALSE when insert_summary raises
SummJoin(r, ok) ==
    /\ pc[r] = "summarize"
    /\ UNCHANGED call
    /\ holder \in {None, r}
    /\ AllDone(summ[r].units)
    /\ LET summaries == NotNone(summ[r].results)
           filled == [k \in 1..Len(summaries) |->
                         Backfill(summaries[k], frame[r].all_clusters)]
       IN  IF summaries # <<>> /\ ~ok
           THEN /\ frame' = [frame EXCEPT ![r].summaries = summaries,
                                          ![r].exc = "insert_summary"]
                /\ pc' = [pc EXCEPT ![r] = "except"]
                /\ holder' = r
                /\ UNCHANGED <<db, ana, hist>>
           ELSE /\ frame' = [frame EXCEPT ![r].summaries = filled]
                /\ db' = [db EXCEPT !.summaries = @ \o filled]
                /\ IF summaries # <<>>
                   THEN /\ ana' = [ana EXCEPT ![r] =
                               [a \in Range(ANALYZERS) |->
                                   [st |-> "pending", attempt |-> 0, result |-> 0]]]
                        /\ hist' = [hist EXCEPT
                               ![r].executed = @ \cup {"analyze"},
                               ![r].summary_inserts = @ + Len(filled)]
                        /\ pc' = [pc EXCEPT ![r] = "analyze"]
                        /\ holder' = None
                   ELSE /\ pc' = [pc EXCEPT ![r] = "format"]
                        /\ holder' = r
                        /\ UNCHANGED <<ana, hist>>
    /\ UNCHANGED <<cost_tracker, trackers, run, fetch, summ, deliv>>

(***************************************************************************)
(* run_pipeline._run_analyzer, one unit per registered analyzer.           *)
(***************************************************************************)
\* whether analyzer a reaches provider.complete: crossref returns [] for
\* fewer than two clusters; trends makes no inference call and, with
\* analyze.trends.enabled at its default (False), returns []
CallsProvider(r, a) ==
    \/ a = "projections"
    \/ a = "crossref" /\ Len(frame[r].all_clusters) >= 2

\* the analyzer whose unit the event loop runs next for the first time:
\* gather creates the tasks in registry order and the loop runs each up to
\* its first suspension before it resumes anything else
NextToStart(r) ==
    LET waiting == {i \in 1..Len(ANALYZERS) : ana[r][ANALYZERS[i]].st = "pending"}
    IN  IF waiting = {} THEN None ELSE ANALYZERS[Min(waiting)]

\* line 172 and the start of analyze(); ctor_ok = FALSE when the constructor
\* raises (outside the try)
AnalyzerStart(r, a, ctor_ok) ==
    /\ pc[r] = "analyze"
    /\ UNCHANGED call
    /\ holder = None
    /\ NextToStart(r) = a
    /\ ana' = [ana EXCEPT ![r][a] =
           IF ~ctor_ok THEN [@ EXCEPT !.st = "ctor_raised"]
           ELSE IF CallsProvider(r, a) THEN [@ EXCEPT !.st = "inflight"]
           ELSE [@ EXCEPT !.st = "done", !.result = 0]]
    /\ UNCHANGED <<holder, cost_tracker, trackers, db, pc, run, frame, fetch, summ,
                   deliv, hist>>

AnalyzerRetries(r, a) ==
    /\ pc[r] = "analyze"
    /\ UNCHANGED call
    /\ holder = None
    /\ NextToStart(r) = None
    /\ ana[r][a].st = "inflight"
    /\ ana[r][a].attempt < MaxRetries
    /\ ana' = [ana EXCEPT ![r][a].attempt = @ + 1]
    /\ UNCHANGED <<holder, cost_tracker, trackers, db, pc, run, frame, fetch, summ,
                   deliv, hist>>

\* provider.complete raises; lines 175-177 log it and return (name, [])
AnalyzerRaises(r, a) ==
    /\ pc[r] = "analyze"
    /\ UNCHANGED call
    /\ holder = None
    /\ NextToStart(r) = None
    /\ ana[r][a].st = "inflight"
    /\ ana' = [ana EXCEPT ![r][a] = [st |-> "failed", attempt |-> 0, result |-> 0]]
    /\ UNCHANGED <<holder, cost_tracker, trackers, db, pc, run, frame, fetch, summ,
                   deliv, hist>>

\* crossref / projections, after provider.complete: the number of results
\* built from the text; none when it does not parse (logged) or is no dict
\* (AttributeError, logged by _run_analyzer)
AnalyzerResults(text) ==
    IF json_loads(text).kind = "dict" THEN Cardinality(json_loads(text).keys) ELSE 0

\* provider.complete returns: _track_cost, then the results are built
AnalyzerReturns(r, a, response) ==
    /\ pc[r] = "analyze"
    /\ UNCHANGED call
    /\ holder = None
    /\ NextToStart(r) = None
    /\ ana[r][a].st = "inflight"
    /\ trackers' = track_cost(trackers, cost_tracker, response)
    /\ ana' = [ana EXCEPT ![r][a] =
           [st |-> "done", attempt |-> 0, result |-> AnalyzerResults(response.text)]]
    /\ hist' = [hist EXCEPT
           ![r].returned_input = @ + response.input_tokens,
           ![r].returned_output = @ + response.output_tokens,
           ![r].returned_cost = @ + estimate_cost(response.input_tokens,
                                    response.output_tokens, response.model),
           ![r].retried_ok = @ \/ ana[r][a].attempt > 0]
    /\ UNCHANGED <<holder, cost_tracker, db, pc, run, frame, fetch, summ, deliv>>

\* lines 179-181: gather re-raises the first exception of a unit; the other
\* units are never awaited again (asyncio.run cancels them when
\* run_pipeline has raised)
AnalyzeAbort(r) ==
    /\ pc[r] = "analyze"
    /\ UNCHANGED call
    /\ holder = None
    /\ NextToStart(r) = None
    /\ \E a \in Range(ANALYZERS) : ana[r][a].st = "ctor_raised"
    /\ frame' = [frame EXCEPT ![r].exc = "analyzer_ctor"]
    /\ ana' = [ana EXCEPT ![r] =
           [a \in Range(ANALYZERS) |-> [st |-> "cancelled", attempt |-> 0, result |-> 0]]]
    /\ pc' = [pc EXCEPT ![r] = "except"]
    /\ holder' = r
    /\ UNCHANGED <<cost_tracker, trackers, db, run, fetch, summ, deliv, hist>>

\* lines 183-193; ok = FALSE when insert_cross_reference or
\* insert_projection raises.  The units are over: their records are reset.
AnalyzeJoin(r, ok) ==
    /\ pc[r] = "analyze"
    /\ UNCHANGED call
    /\ holder = None
    /\ \A a \in Range(ANALYZERS) : ana[r][a].st \in {"done", "failed"}
    /\ IF ~ok /\ ana[r]["crossref"].result + ana[r]["projections"].result > 0
       THEN /\ frame' = [frame EXCEPT ![r].exc = "insert_analysis"]
            /\ pc' = [pc EXCEPT ![r] = "except"]
       ELSE /\ frame' = [frame EXCEPT
                   ![r].cross_refs = ana[r]["crossref"].result,
                   ![r].projections = ana[r]["projections"].result,
                   ![r].trends = ana[r]["trends"].result]
            /\ pc' = [pc EXCEPT ![r] = "format"]
    /\ ana' = [ana EXCEPT ![r] =
           [a \in Range(ANALYZERS) |-> [st |-> "joined", attempt |-> 0, result |-> 0]]]
    /\ holder' = r
    /\ UNCHANGED <<cost_tracker, trackers, db, run, fetch, summ, deliv, hist>>

(***************************************************************************)
(* run_pipeline, lines 195-274: report, delivery, finalization.            *)
(* deliver.telegram.pdf_digest keeps its default (False).                  *)
(***************************************************************************)
Format(r) ==
    /\ pc[r] = "format"
    /\ UNCHANGED call
    /\ holder = r
    /\ frame' = [frame EXCEPT ![r].digest = Digest(frame[r].summaries)]
    /\ hist' = [hist EXCEPT ![r].executed = @ \cup {"format"}]
    /\ deliv' = [deliv EXCEPT ![r] = 1]
    /\ pc' = [pc EXCEPT ![r] = IF Len(CHANNELS) = 0 THEN "finalize" ELSE "deliver"]
    /\ UNCHANGED <<holder, cost_tracker, trackers, db, run, fetch, summ, ana>>

\* lines 222-236: the channel is constructed (outside the try) and
\* channel.send(digest) is awaited; ctor_ok = FALSE when the constructor raises
DeliverStart(r, ctor_ok) ==
    /\ pc[r] = "deliver"
    /\ UNCHANGED call
    /\ holder = r
    /\ hist' = [hist EXCEPT ![r].executed = @ \cup {"deliver"},
                            ![r].sent = IF ctor_ok THEN Append(@, frame[r].digest) ELSE @]
    /\ IF ctor_ok
       THEN /\ pc' = [pc EXCEPT ![r] = "sending"]
            /\ holder' = None
            /\ UNCHANGED frame
       ELSE /\ frame' = [frame EXCEPT ![r].exc = "channel_ctor"]
            /\ pc' = [pc EXCEPT ![r] = "except"]
            /\ UNCHANGED holder
    /\ UNCHANGED <<cost_tracker, trackers, db, run, fetch, summ, ana, deliv>>

\* lines 237-242: send returned True or False, or raised and was logged
DeliverDone(r, outcome) ==
    /\ pc[r] = "sending"
    /\ UNCHANGED call
    /\ holder = None
    /\ outcome \in {"True", "False", "raised"}
    /\ deliv' = [deliv EXCEPT ![r] = @ + 1]
    /\ pc' = [pc EXCEPT ![r] =
                 IF deliv[r] + 1 > Len(CHANNELS) THEN "finalize" ELSE "deliver"]
    /\ holder' = r
    /\ UNCHANGED <<cost_tracker, trackers, db, run, frame, fetch, summ, ana, hist>>

\* lines 245-258; reading _cost_tracker.total_input_tokens raises
\* AttributeError when the module global is None; ok = FALSE when finish_run
\* raises
Finalize(r, ok) ==
    /\ pc[r] = "finalize"
    /\ UNCHANGED call
    /\ holder = r
    /\ IF cost_tracker = None
       THEN /\ frame' = [frame EXCEPT ![r].exc = "AttributeError"]
            /\ pc' = [pc EXCEPT ![r] = "except"]
            /\ UNCHANGED <<run, db, hist>>
       ELSE /\ run' = [run EXCEPT ![r] =
                   SetFinished(CopyLedger(@, trackers[cost_tracker]), "completed")]
            /\ db' = finish_run(db, r, run'[r], ok)
            /\ hist' = [hist EXCEPT ![r].finish_calls = @ + 1,
                                    ![r].finished_at_sets = @ + 1]
            /\ frame' = [frame EXCEPT ![r].exc = IF ok THEN None ELSE "finish_run"]
            /\ pc' = [pc EXCEPT ![r] = IF ok THEN "finally" ELSE "except"]
    /\ UNCHANGED <<holder, cost_tracker, trackers, fetch, summ, ana, deliv>>

\* lines 260-271: the handler; ok = FALSE when its own finish_run raises,
\* and that error then leaves run_pipeline instead of the one caught
Except(r, ok) ==
    /\ pc[r] = "except"
    /\ UNCHANGED call
    /\ holder = r
    /\ run' = [run EXCEPT ![r] =
           IF cost_tracker # None
           THEN CopyLedger(SetFinished(@, "failed"), trackers[cost_tracker])
           ELSE SetFinished(@, "failed")]
    /\ db' = finish_run(db, r, run'[r], ok)
    /\ hist' = [hist EXCEPT ![r].finish_calls = @ + 1,
                            ![r].finished_at_sets = @ + 1,
                            ![r].raised = IF ok THEN frame[r].exc
                                          ELSE "finish_run_in_handler"]
    /\ pc' = [pc EXCEPT ![r] = "finally"]
    /\ UNCHANGED <<holder, cost_tracker, trackers, frame, fetch, summ, ana, deliv>>

\* lines 272-274
Finally(r) ==
    /\ pc[r] = "finally"
    /\ UNCHANGED call
    /\ holder = r
    /\ cost_tracker' = None
    /\ pc' = [pc EXCEPT ![r] = "done"]
    /\ holder' = None
    /\ UNCHANGED <<trackers, db, run, frame, fetch, summ, ana, deliv, hist>>

(***************************************************************************)
(* The environment's inputs.                                               *)
(***************************************************************************)
\* content fingerprints and embeddings of the records of a run
Hashes == {"h1", "h2"}

Vecs == {<<1, 0>>, <<0, 1>>}

Labels == 1..MaxLabel

Response(text, input_tokens, output_tokens, model) ==
    [text |-> text, input_tokens |-> input_tokens,
     output_tokens |-> output_tokens, model |-> model]

\* what the summarization provider returns in a run: an object, or a bare
\* scalar
RunTexts == {<<"{", "what", "label", "}">>, <<"7">>}

RunResponses == {Response(t, 2, 1, "deepseek-chat") : t \in RunTexts}

\* what an analyzer's provider call returns: no result and no usage
\* reported, or one result
AnalyzerResponses ==
    {Response(<<"{", "}">>, 0, 0, "deepseek-chat"),
     Response(<<"{", "what", "}">>, 3, 2, "other")}

(***************************************************************************)
(* One run of the pipeline in the process, as `python -m intel run` makes  *)
(* it.                                                                     *)
(***************************************************************************)
RunStep(r) ==
    \/ Start(r)
    \/ \E u \in Units : \E batch \in Batches(u) : FetchReturns(r, u, batch)
    \/ \E u \in Units : FetchRaises(r, u)
    \/ \E ok \in BOOLEAN : IngestJoin(r, ok)
    \/ \E old \in SUBSET (1..Len(frame[r].all_articles)) : Filter(r, old)
    \/ \E ok \in BOOLEAN : Store(r, ok)
    \/ \E ok \in BOOLEAN, enabled \in BOOLEAN :
          \E hash \in [1..Len(frame[r].all_articles) -> Hashes],
             emb \in [1..Len(frame[r].all_articles) -> Vecs] :
                Dedup(r, ok, enabled, hash, emb)
    \/ \E ok \in {"ok", "cluster", "insert_cluster"}, enabled \in BOOLEAN :
          \E labels \in [1..Len(frame[r].articles) -> Labels] :
                Cluster(r, ok, enabled, labels)
    \/ Admit(r)
    \/ \E c \in 1..Len(summ[r].units) : CallRetries(r, c)
    \/ \E c \in 1..Len(summ[r].units) : CallRaises(r, c)
    \/ \E c \in 1..Len(summ[r].units) : \E resp \in RunResponses :
          CallReturns(r, c, resp)
    \/ \E ok \in BOOLEAN : SummJoin(r, ok)
    \/ \E a \in Range(ANALYZERS) : \E ctor_ok \in BOOLEAN :
          AnalyzerStart(r, a, ctor_ok)
    \/ \E a \in Range(ANALYZERS) : AnalyzerRetries(r, a)
    \/ \E a \in Range(ANALYZERS) : AnalyzerRaises(r, a)
    \/ \E a \in Range(ANALYZERS) : \E resp \in AnalyzerResponses :
          AnalyzerReturns(r, a, resp)
    \/ AnalyzeAbort(r)
    \/ \E ok \in BOOLEAN : AnalyzeJoin(r, ok)
    \/ Format(r)
    \/ \E ctor_ok \in BOOLEAN : DeliverStart(r, ctor_ok)
    \/ \E outcome \in {"True", "False", "raised"} : DeliverDone(r, outcome)
    \/ \E ok \in BOOLEAN : Finalize(r, ok)
    \/ \E ok \in BOOLEAN : Except(r, ok)
    \/ Finally(r)

Next == RunStep("r1")

Spec == Init /\ [][Next]_vars

(***************************************************************************)
(* summarize_all_clusters on its own: any list of up to MaxClusters        *)
(* clusters, and every kind of text a provider may return.                 *)
(***************************************************************************)
\* a cluster of k records of one topic, as run_pipeline hands it over
SummCluster(c, k) ==
    [topic |-> "tech", label |-> "Cluster", cluster_label |-> c,
     article_count |-> k,
     articles |-> [n \in 1..k |-> [source |-> "rss", topic |-> "tech", n |-> n,
                                     id |-> n, cluster_id |-> c]],
     id |-> c]

\* the lists of 0..MaxClusters clusters; single-record and two-record
\* clusters alternate
SummClusterLists ==
    {[c \in 1..m |-> SummCluster(c, IF c % 2 = 1 THEN 1 ELSE 2)] : m \in 0..MaxClusters}

\* clean object, fenced object, object written with typographic quotes
\* inside prose, prose, a bare scalar, and null
SummTexts ==
    {<<"{", "what", "label", "}">>,
     <<"fence", "{", "what", "conf_likely", "}", "fence">>,
     <<"x", "{", "q_what", "}", "x">>,
     <<"x", "x", "x">>,
     <<"7">>,
     <<"null">>}

SummResponses == {Response(t, 2, 1, "deepseek-chat") : t \in SummTexts}

InitSumm ==
    /\ call = NoCall
    /\ holder = None
    /\ cost_tracker = "r1"
    /\ trackers = [r \in Runs |-> NewCostTracker]
    /\ db = [pipeline_runs |-> [r \in Runs |-> IF r = "r1" THEN NewPipelineRun ELSE NoRow],
             articles |-> <<>>, n_clusters |-> 0, summaries |-> <<>>]
    /\ pc = [r \in Runs |-> IF r = "r1" THEN "summarize" ELSE "idle"]
    /\ run = [r \in Runs |-> NewPipelineRun]
    /\ \E clusters \in SummClusterLists :
          /\ frame = [r \in Runs |->
                 IF r = "r1" THEN [NewFrame EXCEPT !.all_clusters = clusters]
                 ELSE NewFrame]
          /\ summ = [r \in Runs |->
                 IF r = "r1"
                 THEN [sem |-> MaxConcurrent,
                       units |-> [c \in 1..Len(clusters) |->
                                     [st |-> "queued", attempt |-> 0]],
                       results |-> [c \in 1..Len(clusters) |-> NoneVal]]
                 ELSE NewSumm]
    /\ fetch = [r \in Runs |-> [u \in Units |-> [st |-> "idle", batch |-> <<>>]]]
    /\ ana = [r \in Runs |-> NewAna]
    /\ deliv = [r \in Runs |-> 0]
    /\ hist = [r \in Runs |-> NewHist]

\* summarize_all_clusters, lines 175-176: the gather is done and the list
\* without the None entries is returned
SummReturn(r) ==
    /\ pc[r] = "summarize"
    /\ UNCHANGED call
    /\ holder = None
    /\ AllDone(summ[r].units)
    /\ frame' = [frame EXCEPT ![r].summaries = NotNone(summ[r].results)]
    /\ pc' = [pc EXCEPT ![r] = "summ_returned"]
    /\ UNCHANGED <<holder, cost_tracker, trackers, db, run, fetch, summ, ana, deliv,
                   hist>>

NextSumm ==
    \/ Admit("r1")
    \/ \E c \in 1..Len(summ["r1"].units) : CallRetries("r1", c)
    \/ \E c \in 1..Len(summ["r1"].units) : CallRaises("r1", c)
    \/ \E c \in 1..Len(summ["r1"].units) : \E resp \in SummResponses :
          CallReturns("r1", c, resp)
    \/ SummReturn("r1")

SpecSumm == InitSumm /\ [][NextSumm]_vars

(***************************************************************************)
(* summarize_all_clusters under the scheduling of the event loop: every    *)
(* limit 1..MaxConcurrent, every list of clusters.  A waiter of the        *)
(* semaphore is woken once a slot is free, a provider call that is in      *)
(* flight ends (it returns or raises, after at most MaxRetries retries),   *)
(* and the gather returns once every unit is over.                         *)
(***************************************************************************)
InitSummFair ==
    /\ call = NoCall
    /\ holder = None
    /\ cost_tracker = "r1"
    /\ trackers = [r \in Runs |-> NewCostTracker]
    /\ db = [pipeline_runs |-> [r \in Runs |-> IF r = "r1" THEN NewPipelineRun ELSE NoRow],
             articles |-> <<>>, n_clusters |-> 0, summaries |-> <<>>]
    /\ pc = [r \in Runs |-> IF r = "r1" THEN "summarize" ELSE "idle"]
    /\ run = [r \in Runs |-> NewPipelineRun]
    /\ \E clusters \in SummClusterLists, max_concurrent \in 1..MaxConcurrent :
          /\ frame = [r \in Runs |->
                 IF r = "r1" THEN [NewFrame EXCEPT !.all_clusters = clusters]
                 ELSE NewFrame]
          /\ summ = [r \in Runs |->
                 IF r = "r1"
                 THEN [sem |-> max_concurrent,
                       units |-> [c \in 1..Len(clusters) |->
                                     [st |-> "queued", attempt |-> 0]],
                       results |-> [c \in 1..Len(clusters) |-> NoneVal]]
                 ELSE NewSumm]
    /\ fetch = [r \in Runs |-> [u \in Units |-> [st |-> "idle", batch |-> <<>>]]]
    /\ ana = [r \in Runs |-> NewAna]
    /\ deliv = [r \in Runs |-> 0]
    /\ hist = [r \in Runs |-> NewHist]

\* the provider call of unit c ends: it raises, or it returns a response
CallEnds(c) ==
    \/ CallRaises("r1", c)
    \/ \E resp \in RunResponses : CallReturns("r1", c, resp)

NextSummFair ==
    \/ Admit("r1")
    \/ \E c \in 1..Len(summ["r1"].units) : CallRetries("r1", c)
    \/ \E c \in 1..Len(summ["r1"].units) : CallEnds(c)
    \/ SummReturn("r1")

SpecSummFair ==
    /\ InitSummFair
    /\ [][NextSummFair]_vars
    /\ WF_vars(Admit("r1"))
    /\ \A c \in 1..MaxClusters : WF_vars(CallEnds(c))
    /\ WF_vars(SummReturn("r1"))

(***************************************************************************)
(* Two run_pipeline coroutines on one event loop.  Every store call        *)
(* succeeds; the units of one source return one record each, which form    *)
(* one cluster per topic.                                                  *)
(***************************************************************************)
TwoRunBatch(u) == IF FetchUnits[u].source = "rss" THEN <<Article(u, 1)>> ELSE <<>>

TwoRunStep(r) ==
    \/ Start(r)
    \/ \E u \in Units : FetchReturns(r, u, TwoRunBatch(u))
    \/ IngestJoin(r, TRUE)
    \/ Filter(r, {})
    \/ Store(r, TRUE)
    \/ Dedup(r, TRUE, FALSE, <<>>, <<>>)
    \/ Cluster(r, "ok", TRUE, [i \in 1..Len(frame[r].articles) |-> 1])
    \/ Admit(r)
    \/ \E c \in 1..Len(summ[r].units) :
          CallReturns(r, c, Response(<<"{", "what", "label", "}">>, 2, 1, "deepseek-chat"))
    \/ SummJoin(r, TRUE)
    \/ \E a \in Range(ANALYZERS) : AnalyzerStart(r, a, TRUE)
    \/ \E a \in Range(ANALYZERS) :
          AnalyzerReturns(r, a, Response(<<"{", "what", "}">>, 3, 2, "other"))
    \/ AnalyzeJoin(r, TRUE)
    \/ Format(r)
    \/ DeliverStart(r, TRUE)
    \/ DeliverDone(r, "True")
    \/ Finalize(r, TRUE)
    \/ Except(r, TRUE)
    \/ Finally(r)

NextTwoRuns == \E r \in Runs : TwoRunStep(r)

SpecTwoRuns == Init /\ [][NextTwoRuns]_vars

(***************************************************************************)
(* DedupProcessor.process on its own: any list of up to MaxDedup records,  *)
(* any content fingerprints and embeddings.                                *)
(***************************************************************************)
\* embeddings at 0, about 27 and 45 degrees, and the zero vector
DedupVecs == {<<1, 0>>, <<2, 1>>, <<1, 1>>, <<0, 0>>}

\* content fingerprints, enough for MaxDedup records that all differ
DedupHashes == {"h1", "h2", "h3"}

\* n records, the i-th with fingerprint hash[i] and embedding emb[i]
InitDedup ==
    /\ NoRun
    /\ \E n \in 0..MaxDedup, enabled \in BOOLEAN :
          \E hash \in [1..n -> DedupHashes], emb \in [1..n -> DedupVecs] :
              call = [fn |-> "dedup", stage |-> "called", enabled |-> enabled,
                      arts |-> [i \in 1..n |-> Article(1, i)],
                      hash |-> hash, emb |-> emb,
                      hash_deduped |-> <<>>, out |-> <<>>]

\* dedup.py, lines 24-26: dedup is disabled and the input is returned
DedupDisabled ==
    /\ call.fn = "dedup"
    /\ call.stage = "called"
    /\ ~call.enabled
    /\ call' = [call EXCEPT !.stage = "returned", !.out = call.arts]
    /\ UNCHANGED runvars

\* dedup.py, lines 28-39: phase 1
DedupPhase1 ==
    /\ call.fn = "dedup"
    /\ call.stage = "called"
    /\ call.enabled
    /\ call' = [call EXCEPT
           !.stage = "phase1",
           !.hash_deduped =
               SelectSeqIdx(call.arts, HashDedup(call.hash, Len(call.arts), 1, {}), 1)]
    /\ UNCHANGED runvars

\* dedup.py, lines 41-76: phase 2 and the return
DedupPhase2 ==
    /\ call.fn = "dedup"
    /\ call.stage = "phase1"
    /\ call' = [call EXCEPT
           !.stage = "returned",
           !.out = DedupProcess(call.arts, call.enabled, call.hash, call.emb)]
    /\ UNCHANGED runvars

NextDedup == DedupDisabled \/ DedupPhase1 \/ DedupPhase2

SpecDedup == InitDedup /\ [][NextDedup]_vars

(***************************************************************************)
(* summarize_cluster on its own, from the moment provider.complete has     *)
(* returned: a cluster of one or of two records and any response text of   *)
(* up to MaxText tokens.                                                   *)
(***************************************************************************)
Tokens == {"{", "}", "fence", "x", "7", "null", "q_what", "q_label"} \cup Members

InitSummarize ==
    /\ NoRun
    /\ \E k \in {1, 2}, n \in 0..MaxText : \E text \in [1..n -> Tokens] :
          call = [fn |-> "summarize_cluster", stage |-> "called",
                  cluster |-> SummCluster(1, k),
                  response |-> Response(text, 1, 1, "deepseek-chat"),
                  summary |-> NoneVal, label |-> "Cluster"]

\* summarize_cluster, lines 95-103 and 109-117; _summarize_single, lines
\* 149-157
SummarizeReturns ==
    /\ call.fn = "summarize_cluster"
    /\ call.stage = "called"
    /\ LET out == summarize_cluster(call.cluster, call.response)
       IN  /\ ~out.raised
           /\ call' = [call EXCEPT !.stage = "returned", !.summary = out.summary,
                                   !.label = out.label]
    /\ UNCHANGED runvars

\* summarize_cluster, line 106, and _summarize_single, line 144: data.get on
\* a value that is no dict
SummarizeRaises ==
    /\ call.fn = "summarize_cluster"
    /\ call.stage = "called"
    /\ summarize_cluster(call.cluster, call.response).raised
    /\ call' = [call EXCEPT !.stage = "raised"]
    /\ UNCHANGED runvars

NextSummarize == SummarizeReturns \/ SummarizeRaises

SpecSummarize == InitSummarize /\ [][NextSummarize]_vars

(***************************************************************************)
(* retry.retry_async on its own.  The operation fn is the environment:     *)
(* each invocation returns or raises one of the failures below.  A failure *)
(* and a result carry the number of the attempt that produced them.        *)
(***************************************************************************)
RETRYABLE_HTTP_CODES == {429, 500, 502, 503, 504}

RETRYABLE_EXCEPTIONS ==
    {"TimeoutException", "ConnectError", "RemoteProtocolError", "ConnectionError",
     "TimeoutError"}

\* the names retry_async looks for in every other exception
RetryableNames ==
    {"RateLimitError", "OverloadedError", "InternalServerError", "APIConnectionError"}

\* the retry-after header of an HTTP status failure: absent, not a number,
\* or a number of seconds
NoHint == [kind |-> "absent"]

Hints == {NoHint, [kind |-> "bad"], [kind |-> "seconds", value |-> 1],
          [kind |-> "seconds", value |-> 100]}

Exc(type, status_code, retry_after, at) ==
    [kind |-> "exc", type |-> type, status_code |-> status_code,
     retry_after |-> retry_after, at |-> at]

\* what one invocation of fn may raise
Failures(at) ==
    {Exc(t, 0, NoHint, at) : t \in {"TimeoutError", "RateLimitError", "ValueError"}}
    \cup {Exc("HTTPStatusError", 429, h, at) : h \in Hints}
    \cup {Exc("HTTPStatusError", 404, NoHint, at)}

\* A faulty classification that retries nothing.
Retryable_Never(exc) == FALSE

\* A faulty classification that retries every failure.
Retryable_Always(exc) == TRUE

\* the except clauses of retry_async, in order: does this failure lead to
\* another attempt
Retryable(exc) ==
    IF exc.type \in RETRYABLE_EXCEPTIONS THEN TRUE
    ELSE IF exc.type = "HTTPStatusError" THEN exc.status_code \in RETRYABLE_HTTP_CODES
    ELSE exc.type \in RetryableNames

RECURSIVE Pow2(_)
Pow2(n) == IF n = 0 THEN 1 ELSE 2 * Pow2(n - 1)

\* min(base_delay * (2**attempt), max_delay)
Backoff(base_delay, max_delay, attempt) ==
    Min({base_delay * Pow2(attempt), max_delay})

\* A faulty delay that sleeps for the whole retry-after hint.
Delay_Uncapped(exc, base_delay, max_delay, attempt) ==
    IF exc.type = "HTTPStatusError" /\ exc.retry_after.kind = "seconds"
    THEN exc.retry_after.value
    ELSE Backoff(base_delay, max_delay, attempt)

\* the delay before the next attempt: lines 48, 60-67 and 86
Delay(exc, base_delay, max_delay, attempt) ==
    IF exc.type = "HTTPStatusError" /\ exc.retry_after.kind = "seconds"
    THEN Min({exc.retry_after.value, max_delay})
    ELSE Backoff(base_delay, max_delay, attempt)

\* the max_delay arguments tried: one the backoff reaches, and the default
MaxDelays == {2, 60}

InitRetry ==
    /\ NoRun
    /\ \E max_retries \in 0..MaxRetriesArg, max_delay \in MaxDelays :
          call = [fn |-> "retry_async", pc |-> "invoke",
                  max_retries |-> max_retries, base_delay |-> 1,
                  max_delay |-> max_delay,
                  attempt |-> 0, last_exc |-> NoneVal,
                  invoked |-> <<>>, waits |-> <<>>,
                  result |-> NoneVal, raised |-> NoneVal]

\* line 43: fn returns and retry_async returns its result
RetryReturns ==
    /\ call.fn = "retry_async"
    /\ call.pc = "invoke"
    /\ LET result == [kind |-> "ok", at |-> call.attempt]
       IN  call' = [call EXCEPT !.pc = "returned", !.result = result,
                                !.invoked = Append(@, result)]
    /\ UNCHANGED runvars

\* lines 44-53, 54-73 and 76-91: fn raises a failure that is retried; the
\* last attempt breaks out of the loop to line 95
RetryCatches(exc) ==
    /\ call.fn = "retry_async"
    /\ call.pc = "invoke"
    /\ Retryable(exc)
    /\ call' = IF call.attempt = call.max_retries
               THEN [call EXCEPT !.pc = "raised", !.last_exc = exc, !.raised = exc,
                                 !.invoked = Append(@, exc)]
               ELSE [call EXCEPT !.pc = "sleep", !.last_exc = exc,
                                 !.invoked = Append(@, exc),
                                 !.waits = Append(@, Delay(exc, call.base_delay,
                                                           call.max_delay, call.attempt))]
    /\ UNCHANGED runvars

\* lines 74-75 and 92-93: fn raises a failure that is not retried
RetryReraises(exc) ==
    /\ call.fn = "retry_async"
    /\ call.pc = "invoke"
    /\ ~Retryable(exc)
    /\ call' = [call EXCEPT !.pc = "raised", !.raised = exc,
                            !.invoked = Append(@, exc)]
    /\ UNCHANGED runvars

\* asyncio.sleep returns; line 41 starts the next attempt, or the loop is
\* over and line 95 raises last_exc
RetryWakes ==
    /\ call.fn = "retry_async"
    /\ call.pc = "sleep"
    /\ call' = IF call.attempt + 1 <= call.max_retries
               THEN [call EXCEPT !.pc = "invoke", !.attempt = @ + 1]
               ELSE [call EXCEPT !.pc = "raised", !.raised = call.last_exc]
    /\ UNCHANGED runvars

NextRetry ==
    \/ RetryReturns
    \/ \E exc \in Failures(call.attempt) : RetryCatches(exc)
    \/ \E exc \in Failures(call.attempt) : RetryReraises(exc)
    \/ RetryWakes

SpecRetry == InitRetry /\ [][NextRetry]_vars

(***************************************************************************)
(* analyze/trends: TrendsAnalyzer.analyze, _find_best_match and            *)
(* _classify_trend on their own.  A label and a what_happened text are     *)
(* sequences of words; a score is a fraction [num, den].                   *)
(***************************************************************************)
MATCH_THRESHOLD == [num |-> 55, den |-> 100]

\* str.lower on one word
Lower(w) == IF w = "AI" THEN "ai" ELSE w

\* set(f"{label} {what_happened}".lower().split())
Words(label, what_happened) == {Lower(w) : w \in Range(label \o what_happened)}

confidence_order == <<"speculative", "developing", "likely", "confirmed">>

\* A faulty classification with the two directions exchanged.
classify_trend_Reversed(current, previous) ==
    IF previous = NoneVal THEN "continuing"
    ELSE IF current.confidence \notin Range(confidence_order)
            \/ previous.confidence \notin Range(confidence_order)
         THEN "continuing"
         ELSE LET curr_idx == CHOOSE i \in 1..4 : confidence_order[i] = current.confidence
                  prev_idx == CHOOSE i \in 1..4 : confidence_order[i] = previous.confidence
              IN  IF curr_idx > prev_idx THEN "de-escalating"
                  ELSE IF curr_idx < prev_idx THEN "escalating"
                  ELSE "continuing"

\* TrendsAnalyzer._classify_trend; list.index raising ValueError is the
\* confidence not being in confidence_order
classify_trend(current, previous) ==
    IF previous = NoneVal THEN "continuing"
    ELSE IF current.confidence \notin Range(confidence_order)
            \/ previous.confidence \notin Range(confidence_order)
         THEN "continuing"
         ELSE LET curr_idx == CHOOSE i \in 1..4 : confidence_order[i] = current.confidence
                  prev_idx == CHOOSE i \in 1..4 : confidence_order[i] = previous.confidence
              IN  IF curr_idx > prev_idx THEN "escalating"
                  ELSE IF curr_idx < prev_idx THEN "de-escalating"
                  ELSE "continuing"

\* A faulty comparison that lets a later pair with the same score win.
Better_OrEqual(score, best_score) ==
    score.num * best_score.den >= best_score.num * score.den

\* line 112: score > best_score
Better(score, best_score) ==
    score.num * best_score.den > best_score.num * score.den

\* line 117: best_score < MATCH_THRESHOLD
Below(best_score, threshold) ==
    best_score.num * threshold.den < threshold.num * best_score.den

NoBest == [score |-> [num |-> 0, den |-> 1], idx |-> 0]

RECURSIVE BestPrev(_, _, _, _, _)
\* the loop of _find_best_match, lines 94-115, from pair i on: the best
\* score and the position of the pair that has it (0: no pair yet)
BestPrev(topic, current_words, prev_pairs, i, best) ==
    IF i > Len(prev_pairs) THEN best
    ELSE LET prev_cluster == prev_pairs[i].cluster
             prev_summary == prev_pairs[i].summary
         IN  IF prev_cluster.topic # topic \/ prev_summary = NoneVal
             THEN BestPrev(topic, current_words, prev_pairs, i + 1, best)
             ELSE LET prev_words == Words(prev_cluster.label, prev_summary.what_happened)
                      score == [num |-> Cardinality(current_words \cap prev_words),
                                den |-> Cardinality(current_words \cup prev_words)]
                  IN  IF current_words = {} \/ prev_words = {}
                      THEN BestPrev(topic, current_words, prev_pairs, i + 1, best)
                      ELSE IF Better(score, best.score)
                           THEN BestPrev(topic, current_words, prev_pairs, i + 1,
                                         [score |-> score, idx |-> i])
                           ELSE BestPrev(topic, current_words, prev_pairs, i + 1, best)

\* TrendsAnalyzer._find_best_match: the Trend, or None; `matched` is the
\* position of the prior pair it was built from
find_best_match(current, current_summary, prev_pairs) ==
    LET best == BestPrev(current.topic,
                         Words(current.label, current_summary.what_happened),
                         prev_pairs, 1, NoBest)
    IN  IF Below(best.score, MATCH_THRESHOLD) \/ best.idx = 0 THEN NoneVal
        ELSE [kind |-> "Trend", topic |-> current.topic,
              current_label |-> current.label,
              previous_label |-> prev_pairs[best.idx].cluster.label,
              trend_type |-> classify_trend(current_summary,
                                            prev_pairs[best.idx].summary),
              matched |-> best.idx]

\* db.get_previous_run_id: the run before the current one, or None
get_previous_run_id(store, current_run_id) ==
    IF current_run_id - 1 \in DOMAIN store
    THEN [kind |-> "id", id |-> current_run_id - 1]
    ELSE NoneVal

\* db.get_clusters_with_summaries: the (Cluster, Summary or None) pairs of a
\* run
get_clusters_with_summaries(store, run_id) == store[run_id]

TrendTexts ==
    {[label |-> <<"AI">>, what_happened |-> <<"chips">>],
     [label |-> <<"chips">>, what_happened |-> <<"ai", "rates">>],
     [label |-> <<"rates">>, what_happened |-> <<"ai">>],
     [label |-> <<>>, what_happened |-> <<>>]}

\* a Cluster with its Summary, or with None when conf is None
Pair(topic, text, conf) ==
    [cluster |-> [topic |-> topic, label |-> text.label],
     summary |-> IF conf = None THEN NoneVal
                 ELSE [kind |-> "Summary", what_happened |-> text.what_happened,
                       confidence |-> conf]]

\* the pairs with a Summary of one of the confidences, and one pair without
\* a Summary per topic (the matcher reads nothing else of such a pair)
Pairs(confs) ==
    {Pair(topic, text, conf) : topic \in Range(topics), text \in TrendTexts,
                               conf \in confs \ {None}}
    \cup {Pair(topic, [label |-> <<"AI">>, what_happened |-> <<>>], None) :
             topic \in Range(topics)}

\* every confidence, recognized or not, and no Summary at all
FullConfs == ConfidenceLevels \cup {"bogus", None}

NarrowConfs == {"developing", None}

\* what the store holds for the previous run: one pair of any confidence,
\* or up to MaxPrevPairs pairs that differ in topic, text and in having a
\* Summary
PrevLists ==
    {<<p>> : p \in Pairs(FullConfs)}
    \cup UNION {[1..n -> Pairs(NarrowConfs)] : n \in 0..MaxPrevPairs}

\* the current clusters tried against a list of prior pairs
CurrentPairs(prev_pairs) ==
    IF Len(prev_pairs) = 1 THEN Pairs(FullConfs) ELSE Pairs(NarrowConfs)

InitTrends ==
    /\ NoRun
    /\ \E enabled \in BOOLEAN, n \in 0..MaxTrendClusters, has_summaries \in BOOLEAN,
          store \in {<<>>} \cup {<<prev>> : prev \in PrevLists} :
          call = [fn |-> "trends", pc |-> "called", enabled |-> enabled,
                  n_clusters |-> n, has_summaries |-> has_summaries,
                  store |-> store, current_run_id |-> Len(store) + 1,
                  prev_pairs |-> <<>>, emitted |-> <<>>,
                  current |-> NoneVal, trend |-> NoneVal]

TrendsReturn(c) == [c EXCEPT !.pc = "returned"]

\* lines 35-37: analyze.trends.enabled is false
TrendsDisabled ==
    /\ call.fn = "trends"
    /\ call.pc = "called"
    /\ ~call.enabled
    /\ call' = TrendsReturn(call)
    /\ UNCHANGED runvars

\* lines 39-40: no clusters or no summaries
TrendsNoInput ==
    /\ call.fn = "trends"
    /\ call.pc = "called"
    /\ call.enabled
    /\ call.n_clusters = 0 \/ ~call.has_summaries
    /\ call' = TrendsReturn(call)
    /\ UNCHANGED runvars

\* lines 43-57: the previous run and its pairs are read; no previous run or
\* no pairs return []
TrendsRead ==
    /\ call.fn = "trends"
    /\ call.pc = "called"
    /\ call.enabled
    /\ call.n_clusters > 0 /\ call.has_summaries
    /\ LET prev_run_id == get_previous_run_id(call.store, call.current_run_id)
       IN  IF prev_run_id = NoneVal
           THEN call' = TrendsReturn(call)
           ELSE LET prev_pairs == get_clusters_with_summaries(call.store, prev_run_id.id)
                IN  IF prev_pairs = <<>>
                    THEN call' = TrendsReturn(call)
                    ELSE call' = [call EXCEPT !.pc = "loop", !.prev_pairs = prev_pairs]
    /\ UNCHANGED runvars

\* lines 64-73: one iteration of the loop over the current clusters;
\* `current` is the cluster and the Summary summary_map holds for it
TrendsVisit(current) ==
    /\ call.fn = "trends"
    /\ call.pc = "loop"
    /\ Len(call.emitted) < call.n_clusters
    /\ LET best_match == IF current.summary = NoneVal THEN NoneVal
                         ELSE find_best_match(current.cluster, current.summary,
                                              call.prev_pairs)
       IN  call' = [call EXCEPT !.current = current, !.trend = best_match,
                                !.emitted = Append(@, best_match # NoneVal)]
    /\ UNCHANGED runvars

\* lines 75-76: the loop is over
TrendsLoopEnds ==
    /\ call.fn = "trends"
    /\ call.pc = "loop"
    /\ Len(call.emitted) = call.n_clusters
    /\ call' = TrendsReturn(call)
    /\ UNCHANGED runvars

NextTrends ==
    \/ TrendsDisabled
    \/ TrendsNoInput
    \/ TrendsRead
    \/ \E current \in CurrentPairs(call.prev_pairs) : TrendsVisit(current)
    \/ TrendsLoopEnds

SpecTrends == InitTrends /\ [][NextTrends]_vars

(***************************************************************************)
(* db.insert_article on its own: a sequence of up to MaxInserts calls on   *)
(* an empty articles table.  A row's id is its position in the table       *)
(* (AUTOINCREMENT, and nothing deletes a row).                             *)
(***************************************************************************)
\* A faulty insert that stores the record again when its URL is taken.
insert_article_Again(table, article, run_id) ==
    [table |-> Append(table, [url |-> article.url, title |-> article.title,
                              run_id |-> run_id]),
     id |-> Len(table) + 1]

\* db.insert_article: the table afterwards and the id returned.  The INSERT
\* fails on the UNIQUE constraint of url when a row has the URL; the
\* handler then returns that row's id
insert_article(table, article, run_id) ==
    LET existing == {k \in 1..Len(table) : table[k].url = article.url}
    IN  IF existing = {}
        THEN [table |-> Append(table, [url |-> article.url, title |-> article.title,
                                       run_id |-> run_id]),
              id |-> Len(table) + 1]
        ELSE [table |-> table, id |-> Min(existing)]

\* the records handed to insert_article: two URLs, each seen with two titles
InsertedArticles == [url : {"u1", "u2"}, title : {"t1", "t2"}]

InitInsert ==
    /\ NoRun
    /\ call = [fn |-> "insert_article", table |-> <<>>, before |-> <<>>,
               log |-> <<>>]

\* one call insert_article(conn, article, run_id); `before` is the table as
\* the call found it and log the URL and the id returned, call by call
InsertArticle(article, run_id) ==
    /\ call.fn = "insert_article"
    /\ Len(call.log) < MaxInserts
    /\ LET out == insert_article(call.table, article, run_id)
       IN  call' = [call EXCEPT !.table = out.table, !.before = call.table,
                                !.log = Append(@, [url |-> article.url, id |-> out.id])]
    /\ UNCHANGED runvars

NextInsert ==
    \E article \in InsertedArticles, run_id \in {1, 2} : InsertArticle(article, run_id)

SpecInsert == InitInsert /\ [][NextInsert]_vars

(***************************************************************************)
(* The units of one concurrent stage and the objects they write: the       *)
(* summarization units of summarize_all_clusters, or the analyzer units of *)
(* run_pipeline, with llm.get_provider_for_task and its module-level cache *)
(* _provider_instances.  A written object is a record [kind, name, id].    *)
(***************************************************************************)
ProviderNames == {"deepseek", "local"}
TaskModels == {"m1", "m2"}

\* config.get_llm_task_config: the provider and the model of the three tasks
\* that reach a provider; summarization is routed to deepseek
TaskConfigs ==
    {[summarize |-> [provider_name |-> "deepseek", model |-> "m1"],
      crossref |-> c, projections |-> p] :
        c, p \in [provider_name : ProviderNames, model : TaskModels]}

ProviderObj(name) == [kind |-> "provider", name |-> name, id |-> 0]
ClusterObj(c) == [kind |-> "cluster", name |-> "", id |-> c]
SummaryObj(c) == [kind |-> "summary", name |-> "", id |-> c]

\* llm.get_provider_for_task, lines 35-47: the cache afterwards.  An
\* instance is created on a miss (active_model = default_model = model) and
\* line 46 assigns provider.active_model on a hit as well
get_provider_for_task(instances, task_cfg) ==
    [instances EXCEPT ![task_cfg.provider_name] =
        [kind |-> "instance", active_model |-> task_cfg.model]]

\* the units of the stage in gather order: one per cluster, or one per
\* registered analyzer
StageUnits(stage, n) ==
    IF stage = "summarize"
    THEN [c \in 1..n |-> [task |-> "summarize", owns |-> c, pc |-> "pending",
                          model |-> None]]
    ELSE [i \in 1..Len(ANALYZERS) |-> [task |-> ANALYZERS[i], owns |-> 0,
                                       pc |-> "pending", model |-> None]]

InitUnits ==
    /\ NoRun
    /\ \E stage \in {"summarize", "analyze"}, n \in 1..MaxUnitClusters,
          tasks \in TaskConfigs :
          call = [fn |-> "units", stage |-> stage, n |-> n, tasks |-> tasks,
                  instances |-> [name \in ProviderNames |->
                      IF stage = "analyze" /\ name = tasks.summarize.provider_name
                      THEN [kind |-> "instance",
                            active_model |-> tasks.summarize.model]
                      ELSE NoneVal],
                  units |-> StageUnits(stage, n),
                  writes |-> {}]

\* whether the unit reaches provider.complete: trends makes no inference
\* call and crossref returns [] for fewer than two clusters
UnitCallsProvider(u) ==
    \/ call.units[u].task \in {"summarize", "projections"}
    \/ call.units[u].task = "crossref" /\ call.n >= 2

\* the unit next in gather order to run for the first time, once a slot of
\* the semaphore is free when the stage is the summarization
UnitMayStart(u) ==
    /\ call.fn = "units"
    /\ u \in 1..Len(call.units)
    /\ call.units[u].pc = "pending"
    /\ \A v \in 1..(u - 1) : call.units[v].pc # "pending"
    /\ call.stage = "summarize" =>
           Cardinality({v \in 1..Len(call.units) : call.units[v].pc = "inflight"})
               < MaxConcurrent

\* summarizer.py:68 and 87, crossref.py:57-58, projections.py:52-53: the
\* unit takes its provider and calls complete, which reads active_model
\* (anthropic_provider.py:32, openai_compat.py:32) before it first suspends
UnitCalls(u) ==
    /\ UnitMayStart(u)
    /\ UnitCallsProvider(u)
    /\ LET task_cfg == call.tasks[call.units[u].task]
           instances == get_provider_for_task(call.instances, task_cfg)
       IN  call' = [call EXCEPT
               !.instances = instances,
               !.writes = @ \cup {[unit |-> u,
                                   obj |-> ProviderObj(task_cfg.provider_name)]},
               !.units[u].pc = "inflight",
               !.units[u].model = instances[task_cfg.provider_name].active_model]
    /\ UNCHANGED runvars

\* the analyzer returns [] without a provider call
UnitSkips(u) ==
    /\ UnitMayStart(u)
    /\ ~UnitCallsProvider(u)
    /\ call' = [call EXCEPT !.units[u].pc = "done"]
    /\ UNCHANGED runvars

\* complete returns: summarize_cluster sets the label of its cluster
\* (summarizer.py:94, 107) and builds its Summary; an analyzer builds new
\* objects only
UnitReturns(u) ==
    /\ call.fn = "units"
    /\ u \in 1..Len(call.units)
    /\ call.units[u].pc = "inflight"
    /\ call' = [call EXCEPT
           !.units[u].pc = "done",
           !.writes = @ \cup
               (IF call.stage = "summarize"
                THEN {[unit |-> u, obj |-> ClusterObj(call.units[u].owns)],
                      [unit |-> u, obj |-> SummaryObj(call.units[u].owns)]}
                ELSE {})]
    /\ UNCHANGED runvars

\* complete raises; _safe_summarize or _run_analyzer logs it
UnitRaises(u) ==
    /\ call.fn = "units"
    /\ u \in 1..Len(call.units)
    /\ call.units[u].pc = "inflight"
    /\ call' = [call EXCEPT !.units[u].pc = "done"]
    /\ UNCHANGED runvars

NextUnits ==
    \/ \E u \in 1..Len(call.units) : UnitCalls(u)
    \/ \E u \in 1..Len(call.units) : UnitSkips(u)
    \/ \E u \in 1..Len(call.units) : UnitReturns(u)
    \/ \E u \in 1..Len(call.units) : UnitRaises(u)

SpecUnits == InitUnits /\ [][NextUnits]_vars

(***************************************************************************)
(* The clustering stage of run_pipeline on its own: cluster_proc.process   *)
(* and the per-topic build_clusters loop, on a list of records that        *)
(* survived dedup.  Every source stamps its records with the topic it was  *)
(* asked for, so the topics of the records are active topics.              *)
(***************************************************************************)
InitCluster ==
    /\ NoRun
    /\ \E n \in 0..MaxClusterArts, enabled \in BOOLEAN :
          \E topic \in [1..n -> Range(topics)], labels \in [1..n -> Labels] :
              call = [fn |-> "cluster", stage |-> "dedup_done", enabled |-> enabled,
                      arts |-> [i \in 1..n |->
                                   [source |-> "rss", topic |-> topic[i], n |-> i,
                                    id |-> i, cluster_id |-> 0]],
                      labels |-> labels, articles |-> <<>>, all_clusters |-> <<>>]

\* run_pipeline, lines 125-137, when process returns its input as it is
\* (cluster.py:29-30): clustering disabled, or fewer than two records
ClusterSkipped ==
    /\ call.fn = "cluster"
    /\ call.stage = "dedup_done"
    /\ ~call.enabled \/ Len(call.arts) < 2
    /\ LET articles == ClusterProcess(call.arts, call.enabled, call.labels)
       IN  call' = [call EXCEPT !.stage = "built", !.articles = articles,
                                !.all_clusters = BuildAllClusters(articles)]
    /\ UNCHANGED runvars

\* run_pipeline, lines 125-137, when process labels every record
ClusterLabelled ==
    /\ call.fn = "cluster"
    /\ call.stage = "dedup_done"
    /\ call.enabled /\ Len(call.arts) >= 2
    /\ LET articles == ClusterProcess(call.arts, call.enabled, call.labels)
       IN  call' = [call EXCEPT !.stage = "built", !.articles = articles,
                                !.all_clusters = BuildAllClusters(articles)]
    /\ UNCHANGED runvars

NextCluster == ClusterSkipped \/ ClusterLabelled

SpecCluster == InitCluster /\ [][NextCluster]_vars

(***************************************************************************)
(* Properties.  R is the run of Spec and SpecSumm.                         *)
(***************************************************************************)
R == "r1"

Row(r) == db.pipeline_runs[r]

LaterStages == {"summarize", "analyze", "format", "deliver"}

\* C1: every execution of run_pipeline that created its run row finalizes the
\* run exactly once: when it has ended, finish_run was invoked exactly once
\* and run.finished_at was assigned exactly once, on every exit path, the
\* finalizing call raising included.
C1_FinalizedExactlyOnce ==
    pc[R] = "done" =>
        /\ hist[R].finish_calls = 1
        /\ hist[R].finished_at_sets = 1

\* C2: run.status starts as running, moves only from running to completed or
\* to failed, and is never assigned a different value once it is completed
\* or failed.
C2_StatusMachine ==
    [][/\ run[R].status \in {"running", "completed", "failed"}
       /\ run[R].status \in {"completed", "failed"} => run'[R].status = run[R].status]_vars

\* C3: when dedup.process or cluster_proc.process raised (and the handler's
\* own write to the store went through), run_pipeline raises that same
\* exception, the stored run row is failed, has a finish timestamp, the
\* counters reached before the failure and the ledger totals, and no
\* summarization, analysis, formatting or delivery step ran.
C3_StageFailure ==
    /\ frame[R].exc \in {"dedup", "cluster"} =>
           /\ hist[R].executed \cap LaterStages = {}
           /\ summ[R].units = <<>>
           /\ hist[R].sent = <<>>
    /\ (/\ pc[R] = "done"
        /\ frame[R].exc \in {"dedup", "cluster"}
        /\ hist[R].raised # "finish_run_in_handler") =>
           /\ hist[R].raised = frame[R].exc
           /\ hist[R].finish_calls = 1
           /\ Row(R).status = "failed"
           /\ Row(R).finished_at # None
           /\ Row(R).articles_fetched = hist[R].fetched
           /\ Row(R).articles_after_dedup =
                  (IF frame[R].exc = "cluster" THEN Len(frame[R].articles) ELSE 0)
           /\ Row(R).clusters_formed = 0
           /\ Row(R).llm_tokens_used =
                  trackers[R].total_input_tokens + trackers[R].total_output_tokens
           /\ Row(R).llm_cost_usd = trackers[R].total_cost_usd

\* C3: the clustering stage raised after dedup kept records, and the run has
\* ended with the row written by the handler
C3_Witness ==
    /\ pc[R] = "done"
    /\ hist[R].raised = "cluster"
    /\ Row(R).status = "failed"
    /\ Row(R).articles_fetched > Row(R).articles_after_dedup
    /\ Row(R).articles_after_dedup > 0

AllCallsRaised(r) ==
    /\ summ[r].units # <<>>
    /\ \A c \in 1..Len(summ[r].units) : summ[r].units[c].st = "raised"

\* C4: when the provider call of every cluster raised, summarize_all_clusters
\* returns the empty list and raises nothing, no analyzer runs, no summary is
\* inserted, the digest is the fallback listing, nothing but a channel
\* constructor or the finalizing write can still fail the run, and a run that
\* ends without an exception is stored as completed.
C4_AllCallsRaise ==
    AllCallsRaised(R) =>
        /\ NotNone(summ[R].results) = <<>>
        /\ frame[R].summaries = <<>>
        /\ "analyze" \notin hist[R].executed
        /\ \A a \in Range(ANALYZERS) : ana[R][a].st = "idle"
        /\ hist[R].summary_inserts = 0
        /\ db.summaries = <<>>
        /\ frame[R].digest \in {None, "fallback"}
        /\ \A i \in 1..Len(hist[R].sent) : hist[R].sent[i] = "fallback"
        /\ frame[R].exc \in {None, "channel_ctor", "finish_run"}
        /\ pc[R] = "done" /\ frame[R].exc = None =>
               /\ Row(R).status = "completed"
               /\ run[R].status = "completed"

\* C4: two clusters, both provider calls raised, the fallback digest was
\* sent and the run is stored as completed
C4_Witness ==
    /\ pc[R] = "done"
    /\ Len(summ[R].units) = 2
    /\ AllCallsRaised(R)
    /\ hist[R].sent = <<"fallback">>
    /\ Row(R).status = "completed"

UnitsIn(r, st) == {c \in 1..Len(summ[r].units) : summ[r].units[c].st = st}

\* C5: summarize_all_clusters returns exactly one Summary for every cluster
\* whose provider call returned a response, whatever its text, and none for
\* a cluster whose call raised.
C5_OneSummaryPerResponse ==
    pc[R] = "summ_returned" =>
        /\ Len(frame[R].summaries) = Cardinality(UnitsIn(R, "returned"))
        /\ \A c \in UnitsIn(R, "returned") : summ[R].results[c] # NoneVal
        /\ \A c \in UnitsIn(R, "raised") : summ[R].results[c] = NoneVal

\* C6: at every moment of summarize_all_clusters at most MaxConcurrent
\* provider calls are in flight, the units in flight hold exactly the slots
\* taken from the semaphore, and a unit waits while no slot is free.
C6_AtMostNInFlight ==
    pc[R] = "summarize" =>
        /\ Cardinality(UnitsIn(R, "inflight")) <= MaxConcurrent
        /\ Cardinality(UnitsIn(R, "inflight")) + summ[R].sem = MaxConcurrent
        /\ UnitsIn(R, "queued") # {} /\ Cardinality(UnitsIn(R, "inflight")) = MaxConcurrent
               => ~ENABLED Admit(R)

\* C6: more clusters than slots: a unit has finished and handed its slot to
\* a unit that had to wait, every slot is taken again, and the last unit is
\* still waiting
C6_Witness ==
    /\ pc[R] = "summarize"
    /\ Len(summ[R].units) > MaxConcurrent + 1
    /\ Cardinality(UnitsIn(R, "inflight")) = MaxConcurrent
    /\ UnitsIn(R, "queued") # {}
    /\ UnitsIn(R, "returned") \cup UnitsIn(R, "raised") # {}
    /\ summ[R].sem = 0

\* the position of a record's unit: sources outer, topics inner
UnitRank(a) ==
    2 * (IF a.source = "rss" THEN 0 ELSE 1) + (IF a.topic = "tech" THEN 1 ELSE 2)

\* C7: once the fetch gather is over, the records passed on are the
\* concatenation, in unit order (sources outer, topics inner), of what the
\* units that did not raise returned; a unit that raised contributes
\* nothing; and the run is neither aborted nor failed by it.
C7_IngestionIsolated ==
    /\ pc[R] = "ingest" => run[R].status = "running" /\ frame[R].exc = None
    /\ pc[R] = "filter" =>
          LET all == frame[R].all_articles
          IN  /\ all = Flatten([u \in Units |->
                           IF fetch[R][u].st = "returned" THEN fetch[R][u].batch
                           ELSE <<>>])
              /\ \A i \in 1..Len(all) :
                    /\ fetch[R][UnitRank(all[i])].st = "returned"
                    /\ all[i] \in Range(fetch[R][UnitRank(all[i])].batch)
              /\ \A i, j \in 1..Len(all) : i < j => UnitRank(all[i]) <= UnitRank(all[j])
              /\ run[R].articles_fetched = Len(all)
              /\ run[R].status = "running"
              /\ frame[R].exc = None

\* C7: two units raised, the two others returned a record each, and the run
\* goes on with those two records
C7_Witness ==
    /\ pc[R] = "filter"
    /\ fetch[R][1].st = "raised"
    /\ fetch[R][4].st = "raised"
    /\ fetch[R][2].batch # <<>>
    /\ fetch[R][3].batch # <<>>
    /\ Len(frame[R].all_articles) = 2

\* no record is left after ingestion and _filter_articles
ZeroSurvive(r) ==
    \/ "filter" \in hist[r].executed /\ frame[r].all_articles = <<>>
    \/ "filter" \notin hist[r].executed /\ pc[r] \in {"except", "finally", "done"}

\* C8: when no record survives ingestion and filtering, no dedup, clustering,
\* summarization, analysis or delivery step runs, and the run that ends
\* without an exception is stored as completed with records-after-dedup,
\* clusters-formed, tokens-used and cost all zero.
C8_ZeroRecordsCompleteDirectly ==
    ZeroSurvive(R) =>
        /\ hist[R].executed \cap {"dedup", "cluster", "summarize", "analyze", "deliver"} = {}
        /\ hist[R].sent = <<>>
        /\ pc[R] = "done" /\ hist[R].raised = None =>
               /\ Row(R).status = "completed"
               /\ Row(R).articles_after_dedup = 0
               /\ Row(R).clusters_formed = 0
               /\ Row(R).llm_tokens_used = 0
               /\ Row(R).llm_cost_usd = 0

\* the ledger of run r holds the sums over the provider calls of r that
\* returned
LedgerIsSumOfReturned(r) ==
    /\ trackers[r].total_input_tokens = hist[r].returned_input
    /\ trackers[r].total_output_tokens = hist[r].returned_output
    /\ trackers[r].total_cost_usd = hist[r].returned_cost

\* the stored counters of a finalized run r are the sums over its calls
RowIsSumOfReturned(r) ==
    Row(r).status \in {"completed", "failed"} =>
        /\ Row(r).llm_tokens_used = hist[r].returned_input + hist[r].returned_output
        /\ Row(r).llm_cost_usd = hist[r].returned_cost

\* C9: under every interleaving of the summarization units and analyzers of
\* one run, the ledger holds the sums of the input tokens, output tokens and
\* estimated cost of the provider calls that returned, each counted once
\* whatever retries preceded it and failed attempts adding nothing, and
\* these are the totals the finalized run stores.
C9_LedgerTotals ==
    /\ pc[R] # "idle" => LedgerIsSumOfReturned(R)
    /\ RowIsSumOfReturned(R)

\* C9: a run is stored as completed after summarization and analyzer calls
\* returned, one of them after a transient failure and a retry
C9_Witness ==
    /\ pc[R] = "done"
    /\ Row(R).status = "completed"
    /\ hist[R].retried_ok
    /\ Len(summ[R].units) = 2
    /\ UnitsIn(R, "returned") # {}
    /\ UnitsIn(R, "raised") # {}
    /\ Row(R).llm_tokens_used >= 2 * 3 + 5

\* C10: while a run is between its start and its end the module-level
\* ledger is the one that run created, every run's ledger holds exactly the
\* usage of that run's own calls, and the counters a run stores at
\* finalization are those sums.
C10_LedgerPerRun ==
    \A r \in Runs :
        /\ pc[r] \notin {"idle", "done"} => cost_tracker = r
        /\ pc[r] # "idle" => LedgerIsSumOfReturned(r)
        /\ RowIsSumOfReturned(r)

\* the input positions of a list of records of a DedupProcessor.process call
Idx(arts) == [k \in 1..Len(arts) |-> arts[k].n]

Increasing(s) == \A k \in 1..(Len(s) - 1) : s[k] < s[k + 1]

\* C11: when dedup is enabled, for every content fingerprint of the input
\* exactly one record with that fingerprint passes phase 1, it is the first
\* record with that fingerprint in input order, and the phase 1 output is a
\* subsequence of the input.
C11_ExactDedup ==
    (call.fn = "dedup" /\ call.enabled /\ call.stage \in {"phase1", "returned"}) =>
        LET passed == Idx(call.hash_deduped)
        IN  /\ \A i \in 1..Len(call.arts) :
                  LET same == {k \in 1..Len(passed) : call.hash[passed[k]] = call.hash[i]}
                  IN  /\ Cardinality(same) = 1
                      /\ \A k \in same :
                            passed[k] = Min({m \in 1..Len(call.arts) :
                                                call.hash[m] = call.hash[i]})
            /\ Increasing(passed)
            /\ \A k \in 1..Len(passed) : call.hash_deduped[k] = call.arts[passed[k]]

\* C11: three records, the first and the third with the same fingerprint;
\* the first two have passed phase 1
C11_Witness ==
    /\ call.fn = "dedup"
    /\ call.stage = "phase1"
    /\ Len(call.arts) = 3
    /\ call.hash[1] = call.hash[3]
    /\ call.hash[1] # call.hash[2]
    /\ Idx(call.hash_deduped) = <<1, 2>>

\* C12: in the list DedupProcessor.process returns no two records have
\* cosine similarity at or above the threshold; of two records that passed
\* exact dedup and are that similar the later one is never in the output;
\* and the output keeps the input's relative order.
C12_NearDuplicateDedup ==
    (call.fn = "dedup" /\ call.enabled /\ call.stage = "returned") =>
        LET passed == Range(Idx(call.hash_deduped))
            out == Idx(call.out)
        IN  /\ \A i, j \in Range(out) :
                  i # j => ~CosineAtLeast(call.emb[i], call.emb[j], cosine_threshold)
            /\ \A i, j \in passed :
                  (i < j /\ CosineAtLeast(call.emb[i], call.emb[j], cosine_threshold))
                      => j \notin Range(out)
            /\ Increasing(out)
            /\ Range(out) \subseteq passed

\* C13: every Cluster the coordinator builds in a run holds only records of
\* the cluster's own topic, although the labels were assigned over the
\* records of all topics together.
C13_TopicPure ==
    \A c \in 1..Len(frame[R].all_clusters) :
        LET cluster == frame[R].all_clusters[c]
        IN  \A k \in 1..Len(cluster.articles) :
                cluster.articles[k].topic = cluster.topic

\* C13: two clusters of different topics were built from records that
\* carry the same integer label
C13_Witness ==
    \E c, d \in 1..Len(frame[R].all_clusters) :
        /\ frame[R].all_clusters[c].topic # frame[R].all_clusters[d].topic
        /\ frame[R].all_clusters[c].cluster_label = frame[R].all_clusters[d].cluster_label
        /\ frame[R].all_clusters[c].articles # <<>>
        /\ frame[R].all_clusters[d].articles # <<>>
        /\ \E i, j \in 1..Len(frame[R].articles) :
              /\ frame[R].articles[i].topic # frame[R].articles[j].topic
              /\ frame[R].articles[i].cluster_id = frame[R].articles[j].cluster_id
              /\ frame[R].articles[i].cluster_id # 0

\* the notes the two variants of summarize_cluster put in why_it_matters
ParseFailureNotes == {"Parse error.", "Parse error - raw LLM output used."}

\* C14: when the response text fails every extraction strategy,
\* summarize_cluster raises nothing and returns a Summary with confidence
\* "developing", with what_happened a prefix of the raw text of at most
\* WhatCap tokens, and with the parse-failure note in why_it_matters, for a
\* cluster of one record and for a cluster of several.
C14_MalformedOutputRecovery ==
    (/\ call.fn = "summarize_cluster"
     /\ call.stage # "called"
     /\ extract_json(call.response.text) = NoneVal) =>
        /\ call.stage = "returned"
        /\ call.summary.kind = "Summary"
        /\ call.summary.confidence = "developing"
        /\ Len(call.summary.what_happened) <= WhatCap
        /\ Len(call.summary.what_happened) <= Len(call.response.text)
        /\ call.summary.what_happened =
               SubSeq(call.response.text, 1, Len(call.summary.what_happened))
        /\ call.summary.why_it_matters \in ParseFailureNotes

\* C14: a response of prose longer than WhatCap tokens came back for a
\* cluster of two records and the Summary carries its first WhatCap tokens
C14_Witness ==
    /\ call.fn = "summarize_cluster"
    /\ call.stage = "returned"
    /\ Len(call.cluster.articles) = 2
    /\ Len(call.response.text) > WhatCap
    /\ \A i \in 1..Len(call.response.text) : call.response.text[i] = "x"
    /\ Len(call.summary.what_happened) = WhatCap

\* C15: every Summary summarize_cluster returns has a confidence that is one
\* of the four levels, whatever the provider's response.
C15_ConfidenceLevel ==
    (call.fn = "summarize_cluster" /\ call.stage = "returned") =>
        call.summary.confidence \in ConfidenceLevels

\* the failures the specification calls transient
Transient(e) ==
    /\ e.kind = "exc"
    /\ \/ e.type \in {"TimeoutError", "RateLimitError"}
       \/ e.type = "HTTPStatusError" /\ e.status_code \in {429, 500, 502, 503, 504}

RetryDone == call.pc \in {"returned", "raised"}

\* C16: retry_async invokes the operation at most max_retries + 1 times; it
\* makes no invocation after one that succeeded and returns the result of
\* that invocation; when every invocation failed with a transient failure it
\* has made exactly max_retries + 1 invocations and raises the failure of
\* the last one.
C16_RetryBound ==
    call.fn = "retry_async" =>
        /\ Len(call.invoked) <= call.max_retries + 1
        /\ \A k \in 1..(Len(call.invoked) - 1) : call.invoked[k].kind # "ok"
        /\ (Len(call.invoked) > 0 /\ call.invoked[Len(call.invoked)].kind = "ok") =>
               /\ call.pc = "returned"
               /\ call.result = call.invoked[Len(call.invoked)]
        /\ call.pc = "returned" =>
               /\ Len(call.invoked) > 0
               /\ call.invoked[Len(call.invoked)].kind = "ok"
        /\ (RetryDone /\ \A k \in 1..Len(call.invoked) : Transient(call.invoked[k])) =>
               /\ Len(call.invoked) = call.max_retries + 1
               /\ call.pc = "raised"
               /\ call.raised = call.invoked[Len(call.invoked)]

\* C16: with max_retries = 2, two transient failures and then a success
C16_Witness ==
    /\ call.fn = "retry_async"
    /\ call.pc = "returned"
    /\ call.max_retries = 2
    /\ Len(call.invoked) = 3
    /\ Transient(call.invoked[1])
    /\ Transient(call.invoked[2])
    /\ call.result = [kind |-> "ok", at |-> 2]

\* C16: with max_retries = 2, three transient failures and the last one
\* raised
C16_WitnessExhausted ==
    /\ call.fn = "retry_async"
    /\ call.pc = "raised"
    /\ call.max_retries = 2
    /\ Len(call.invoked) = 3
    /\ call.raised.at = 2

Level(c) ==
    CASE c = "speculative" -> 1
      [] c = "developing" -> 2
      [] c = "likely" -> 3
      [] c = "confirmed" -> 4
      [] OTHER -> 0

\* C18: for a current summary matched to a prior summary the Trend type is
\* "escalating" exactly when the current confidence is strictly higher on
\* the scale than the prior one, "de-escalating" exactly when it is strictly
\* lower, and "continuing" exactly when the two are equal or one of them is
\* not one of the four levels.
C18_TrendClassification ==
    (call.fn = "trends" /\ call.trend # NoneVal) =>
        LET cur == Level(call.current.summary.confidence)
            prev == Level(call.prev_pairs[call.trend.matched].summary.confidence)
            type == call.trend.trend_type
        IN  /\ type = "escalating" <=> (cur # 0 /\ prev # 0 /\ cur > prev)
            /\ type = "de-escalating" <=> (cur # 0 /\ prev # 0 /\ cur < prev)
            /\ type = "continuing" <=> (cur = 0 \/ prev = 0 \/ cur = prev)

\* C18: a current cluster with confidence "confirmed" matched to a prior
\* pair of the same label with confidence "developing" is "escalating"
C18_Witness ==
    /\ call.fn = "trends"
    /\ call.trend # NoneVal
    /\ call.current.summary.confidence = "confirmed"
    /\ call.prev_pairs[call.trend.matched].summary.confidence = "developing"
    /\ call.prev_pairs[call.trend.matched].cluster.label = call.current.cluster.label
    /\ call.trend.trend_type = "escalating"

\* word-set Jaccard similarity of a current pair and a prior pair, as the
\* fraction of common words among all words; no score when there is no word
Jaccard(a, b) ==
    LET wa == Words(a.cluster.label, a.summary.what_happened)
        wb == Words(b.cluster.label, b.summary.what_happened)
    IN  [num |-> Cardinality(wa \cap wb), den |-> Cardinality(wa \cup wb),
         defined |-> wa # {} /\ wb # {}]

\* the prior pairs a current pair can be matched to: same topic, with a
\* Summary, Jaccard similarity >= 0.55
Candidates(current, prev_pairs) ==
    {i \in 1..Len(prev_pairs) :
        /\ prev_pairs[i].cluster.topic = current.cluster.topic
        /\ prev_pairs[i].summary # NoneVal
        /\ Jaccard(current, prev_pairs[i]).defined
        /\ 100 * Jaccard(current, prev_pairs[i]).num
               >= 55 * Jaccard(current, prev_pairs[i]).den}

\* i scores at least as high as j
ScoresAtLeast(current, prev_pairs, i, j) ==
    Jaccard(current, prev_pairs[i]).num * Jaccard(current, prev_pairs[j]).den
        >= Jaccard(current, prev_pairs[j]).num * Jaccard(current, prev_pairs[i]).den

\* C19: the matcher emits at most one Trend per current cluster; it emits
\* one for a cluster exactly when the cluster has a summary and some prior
\* pair of the same topic with a summary has Jaccard similarity >= 0.55 with
\* it; the Trend's previous label is that of the first same-topic prior pair
\* with the maximum score; the matched pair is never of another topic; and
\* without a previous run no Trend is emitted.
C19_TrendMatcher ==
    call.fn = "trends" =>
        /\ Len(call.emitted) <= call.n_clusters
        /\ (call.pc = "returned" /\ call.store = <<>>) => call.emitted = <<>>
        /\ call.current # NoneVal =>
               LET cands == IF call.current.summary = NoneVal THEN {}
                            ELSE Candidates(call.current, call.prev_pairs)
               IN  /\ call.trend # NoneVal <=> cands # {}
                   /\ call.emitted[Len(call.emitted)] = (call.trend # NoneVal)
                   /\ call.trend # NoneVal =>
                          LET m == call.trend.matched
                          IN  /\ m \in cands
                              /\ call.prev_pairs[m].cluster.topic = call.trend.topic
                              /\ call.trend.topic = call.current.cluster.topic
                              /\ call.trend.current_label = call.current.cluster.label
                              /\ call.trend.previous_label = call.prev_pairs[m].cluster.label
                              /\ \A j \in cands :
                                    /\ ScoresAtLeast(call.current, call.prev_pairs, m, j)
                                    /\ ScoresAtLeast(call.current, call.prev_pairs, j, m)
                                          => m <= j

\* C19: two prior pairs of the current cluster's topic have the same score
\* above the threshold and different labels, and the Trend names the first
C19_Witness ==
    /\ call.fn = "trends"
    /\ call.trend # NoneVal
    /\ Len(call.prev_pairs) = 2
    /\ Candidates(call.current, call.prev_pairs) = {1, 2}
    /\ ScoresAtLeast(call.current, call.prev_pairs, 2, 1)
    /\ call.prev_pairs[1].cluster.label # call.prev_pairs[2].cluster.label
    /\ call.trend.previous_label = call.prev_pairs[1].cluster.label

\* C19: the second of two prior pairs scores strictly higher and is matched
C19_WitnessLaterBest ==
    /\ call.fn = "trends"
    /\ call.trend # NoneVal
    /\ Len(call.prev_pairs) = 2
    /\ Candidates(call.current, call.prev_pairs) = {1, 2}
    /\ ~ScoresAtLeast(call.current, call.prev_pairs, 1, 2)
    /\ call.trend.matched = 2

\* what the rest of the run uses as the results of analyzer a
Contribution(f, a) ==
    CASE a = "crossref" -> f.cross_refs
      [] a = "projections" -> f.projections
      [] a = "trends" -> f.trends

AnalyzerFailed(a) == ana[R][a].st \in {"failed", "ctor_raised"}

C22_InsertIdempotent ==
    call.fn = "insert_article" =>
        /\ call.log # <<>> =>
               LET last == call.log[Len(call.log)]
                   stored == {k \in 1..Len(call.before) : call.before[k].url = last.url}
               IN  stored # {} =>
                       /\ call.table = call.before
                       /\ last.id \in stored
        /\ \A j, k \in 1..Len(call.table) :
               call.table[j].url = call.table[k].url => j = k
        /\ \A j, k \in 1..Len(call.log) :
               call.log[j].url = call.log[k].url => call.log[j].id = call.log[k].id

\* C22: a URL was inserted, then another, then the first again: two rows,
\* and the third call returned the id of the first
C22_Witness ==
    /\ call.fn = "insert_article"
    /\ Len(call.log) = 3
    /\ call.log[1].url = call.log[3].url
    /\ call.log[1].url # call.log[2].url
    /\ Len(call.table) = 2
    /\ call.log[3].id = 1

\* C23: of the records that passed exact dedup, DedupProcessor.process
\* drops record j exactly when some record i before it among them has
\* cosine similarity at or above the threshold with j, whether or not i
\* itself was dropped; every other record that passed is returned.
C23_DropsEveryLaterOfAPair ==
    (call.fn = "dedup" /\ call.enabled /\ call.stage = "returned") =>
        LET passed == Range(Idx(call.hash_deduped))
            out == Range(Idx(call.out))
        IN  \A j \in passed :
                j \notin out <=>
                    \E i \in passed :
                        /\ i < j
                        /\ CosineAtLeast(call.emb[i], call.emb[j], cosine_threshold)

StageRank(p) ==
    CASE p = "idle" -> 0
      [] p = "ingest" -> 1
      [] p = "filter" -> 2
      [] p = "store" -> 3
      [] p = "dedup" -> 4
      [] p = "cluster" -> 5
      [] p = "summarize" -> 6
      [] p = "analyze" -> 7
      [] p = "format" -> 8
      [] p \in {"deliver", "sending"} -> 9
      [] p = "finalize" -> 10
      [] OTHER -> 11

\* C25: the run leaves ingestion only when every fetch unit has returned or
\* raised, whatever the order in which they did; from then on it never goes
\* back to an earlier stage, a stage is entered only from the one before it
\* (a stage with nothing to do being skipped), and an analyzer changes state
\* only during the analysis stage, which follows the return of every
\* summarization unit.
C25_StageOrder ==
    [][/\ (pc[R] = "ingest" /\ pc'[R] # "ingest") =>
              \A u \in Units : fetch[R][u].st \in {"returned", "raised"}
       /\ StageRank(pc'[R]) >= StageRank(pc[R])
       /\ (pc'[R] # pc[R] /\ StageRank(pc'[R]) \in 2..10) =>
              \/ StageRank(pc'[R]) = StageRank(pc[R]) + 1
              \/ pc[R] = "summarize" /\ pc'[R] = "format"
              \/ StageRank(pc'[R]) = StageRank(pc[R])
       /\ ana'[R] # ana[R] =>
              /\ AllDone(summ[R].units)
              /\ \/ pc[R] = "analyze"
                 \/ pc[R] = "summarize" /\ pc'[R] = "analyze"]_vars

\* C25: the last fetch unit returned while the first was still running, and
\* the run went through every stage to its end
C25_Witness ==
    /\ pc[R] = "done"
    /\ run[R].status = "completed"
    /\ {"filter", "store", "dedup", "cluster", "summarize", "analyze", "format",
        "deliver"} \subseteq hist[R].executed

\* C25: a unit has finished while an earlier unit is still running
C25_WitnessAnyOrder ==
    /\ pc[R] = "ingest"
    /\ \E u, v \in Units :
          /\ u < v
          /\ fetch[R][u].st = "pending"
          /\ fetch[R][v].st \in {"returned", "raised"}

\* C26: during the summarization stage and during the analysis stage no
\* object (a Cluster, a Summary, a provider instance) is written by two
\* units of the stage.
C26_SingleWriter ==
    call.fn = "units" =>
        \A w, x \in call.writes : w.obj = x.obj => w.unit = x.unit

\* C26 without the provider instances: a Cluster and a Summary are written
\* by the unit of that cluster only, and every call uses the model
\* configured for its own task.
C26_OwnedObjects ==
    call.fn = "units" =>
        /\ \A w \in call.writes :
               w.obj.kind \in {"cluster", "summary"} =>
                   call.units[w.unit].owns = w.obj.id
        /\ \A u \in 1..Len(call.units) :
               call.units[u].model # None =>
                   call.units[u].model = call.tasks[call.units[u].task].model

\* C27: when clustering is enabled and at least two records survived dedup,
\* every surviving record is a member of exactly one Cluster, the Cluster of
\* its topic and label; no two Clusters have the same topic and label; every
\* Cluster has members and a member count equal to their number; and the
\* member counts sum to the number of surviving records.
C27_ClustersPartition ==
    (call.fn = "cluster" /\ call.stage = "built" /\ call.enabled
        /\ Len(call.arts) >= 2) =>
        LET clusters == call.all_clusters
            Holds(c, a) == \E k \in 1..Len(clusters[c].articles) :
                               clusters[c].articles[k] = a
        IN  /\ \A i \in 1..Len(call.articles) :
                  LET a == call.articles[i]
                      in == {c \in 1..Len(clusters) : Holds(c, a)}
                  IN  /\ Cardinality(in) = 1
                      /\ \A c \in in :
                            /\ clusters[c].topic = a.topic
                            /\ clusters[c].cluster_label = a.cluster_id
                            /\ Cardinality({k \in 1..Len(clusters[c].articles) :
                                   clusters[c].articles[k] = a}) = 1
            /\ \A c, d \in 1..Len(clusters) :
                  (clusters[c].topic = clusters[d].topic
                      /\ clusters[c].cluster_label = clusters[d].cluster_label)
                          => c = d
            /\ \A c \in 1..Len(clusters) :
                  /\ clusters[c].articles # <<>>
                  /\ clusters[c].article_count = Len(clusters[c].articles)
            /\ SumSeq([c \in 1..Len(clusters) |-> clusters[c].article_count])
                  = Len(call.articles)

\* C27: three records, two of one topic with the same label and one of the
\* other topic with that label too: two Clusters, of two members and of one
C27_Witness ==
    /\ call.fn = "cluster"
    /\ call.stage = "built"
    /\ call.enabled
    /\ Len(call.articles) = 3
    /\ call.articles[1].topic = call.articles[2].topic
    /\ call.articles[1].topic # call.articles[3].topic
    /\ \A i \in 1..3 : call.articles[i].cluster_id = 1
    /\ Len(call.all_clusters) = 2
    /\ call.all_clusters[1].article_count = 2

\* the clusters of run r whose unit produced a Summary, in cluster order
Produced(r) ==
    SelectSeqIdx([c \in 1..Len(summ[r].results) |-> c],
                 {c \in 1..Len(summ[r].results) : summ[r].results[c] # NoneVal}, 1)

\* C28: the Summaries a run keeps and stores are those its units produced,
\* as they were produced: each carries the identifier of the stored cluster
\* it was generated from, no two carry the same identifier, and the backfill
\* loop has changed none of them, whichever units failed and in whatever
\* order the calls completed.
C28_SummaryOwnsItsCluster ==
    frame[R].summaries # <<>> =>
        LET summaries == frame[R].summaries
            produced == Produced(R)
        IN  /\ Len(summaries) = Len(produced)
            /\ \A k \in 1..Len(summaries) :
                  /\ summaries[k] = summ[R].results[produced[k]]
                  /\ summaries[k].cluster_id = frame[R].all_clusters[produced[k]].id
                  /\ summaries[k].cluster_id # 0
            /\ \A j, k \in 1..Len(summaries) :
                  summaries[j].cluster_id = summaries[k].cluster_id => j = k
            /\ \A k \in 1..Len(db.summaries) : db.summaries[k] = summaries[k]

\* C28: the unit of the first of two clusters failed and the Summary of the
\* second is stored with the second cluster's identifier
C28_Witness ==
    /\ Len(frame[R].all_clusters) = 2
    /\ summ[R].units[1].st = "raised"
    /\ Len(db.summaries) = 1
    /\ db.summaries[1].cluster_id = frame[R].all_clusters[2].id
    /\ frame[R].all_clusters[1].articles # <<>>

\* the clustering stage of run r is over and left every record unlabelled
Unlabelled(r) ==
    /\ "summarize" \in hist[r].executed
    /\ \A i \in 1..Len(frame[r].articles) : frame[r].articles[i].cluster_id = 0

\* C29: a run in which fewer than two records survived dedup leaves every
\* record unlabelled, as does one with clustering disabled; such a run forms
\* no cluster, starts no summarization unit, has no Summary, runs no
\* analyzer, renders and sends the fallback digest only, can still fail only
\* on a channel constructor or on the finalizing write, and is stored as
\* completed with clusters_formed = 0 when it ends without an exception.
C29_NoClustersFallback ==
    /\ ("summarize" \in hist[R].executed /\ run[R].articles_after_dedup < 2)
           => Unlabelled(R)
    /\ Unlabelled(R) =>
           /\ frame[R].all_clusters = <<>>
           /\ run[R].clusters_formed = 0
           /\ summ[R].units = <<>>
           /\ frame[R].summaries = <<>>
           /\ db.summaries = <<>>
           /\ "analyze" \notin hist[R].executed
           /\ \A a \in Range(ANALYZERS) : ana[R][a].st = "idle"
           /\ frame[R].digest \in {None, "fallback"}
           /\ \A i \in 1..Len(hist[R].sent) : hist[R].sent[i] = "fallback"
           /\ frame[R].exc \in {None, "channel_ctor", "finish_run"}
           /\ (pc[R] = "done" /\ frame[R].exc = None) =>
                  /\ Row(R).status = "completed"
                  /\ Row(R).clusters_formed = 0
                  /\ hist[R].sent = <<"fallback">>

\* C29: two records survived dedup, none was labelled (clustering is
\* disabled), and the run is stored as completed after the fallback digest
C29_Witness ==
    /\ pc[R] = "done"
    /\ Unlabelled(R)
    /\ run[R].articles_after_dedup = 2
    /\ Row(R).status = "completed"
    /\ hist[R].sent = <<"fallback">>

\* C29: a single record survived dedup and the run is stored as completed
C29_WitnessSingle ==
    /\ pc[R] = "done"
    /\ Unlabelled(R)
    /\ run[R].articles_after_dedup = 1
    /\ Row(R).status = "completed"

\* C30: summarize_all_clusters returns in the end, whatever the limit and
\* the number of clusters; before that every unit waiting for the semaphore
\* is admitted; and a unit gives its slot back when its call ends, whether
\* the call returned or raised.
C30_SummarizationTerminates ==
    /\ <>(pc[R] = "summ_returned")
    /\ \A c \in 1..MaxClusters :
           (c <= Len(summ[R].units) /\ summ[R].units[c].st = "queued")
               ~> (c <= Len(summ[R].units) /\ summ[R].units[c].st # "queued")
    /\ [][\A c \in 1..Len(summ[R].units) :
              (summ[R].units[c].st = "inflight"
                  /\ summ'[R].units[c].st \in {"returned", "raised"})
                      => summ'[R].sem = summ[R].sem + 1]_vars

\* C30: three clusters behind a limit of one: all three units are over, one
\* call raised and one returned, every slot is free again and
\* summarize_all_clusters has returned
C30_Witness ==
    /\ pc[R] = "summ_returned"
    /\ Len(summ[R].units) = 3
    /\ summ[R].sem = 1
    /\ summ[R].units[1].st = "raised"
    /\ summ[R].units[3].st = "returned"

====
